---- MODULE Spec2Model ----
(***************************************************************************)
(* Turn-bounded conversation memory (deep_research/utils/memory.py) and    *)
(* the agent step loop that drives it (deep_research/agents/agent.py).     *)
(*                                                                         *)
(* Indices into history follow the source: they are 0-based (the record at *)
(* source index i is history[i + 1] here), so that boundaries, guards such *)
(* as "boundary <= 0" and slices read as they do in the code.              *)
(***************************************************************************)
EXTENDS Integers, Sequences, FiniteSets, TLC

VARIABLES
    history,            \* Memory._history: sequence of {msg, meta} records
    messages,           \* Memory._messages: the model-facing view
    max_turns,          \* Memory.max_turns
    keep_last_n_turns,  \* Memory.keep_last_n_turns
    autosave,           \* Memory.autosave
    autosave_every,     \* Memory.autosave_every
    autosave_counter,   \* Memory._autosave_counter
    saved,              \* content of output/<session>/<agent_id>/memory.json
    clock,              \* the time utc_iso() reads; one tick per append
    issued,             \* ids listed in tool_calls of assistant messages appended so far
    orphan,             \* some tool message was appended with an id not issued before it
    last,               \* what the last completed operation did (its observable outcome)
    lock,               \* Memory._lock: the append that holds it across an await, and its waiters
    agent,              \* the Agent's configuration: initial user message, tools, max_steps, ...
    pc,                 \* where the agent's run is
    step_index,         \* step_index of Agent._run_internal
    task_completed,     \* task_completed of Agent._run_internal
    completion_prompt_added,  \* completion_prompt_added of Agent._run_internal
    batch,              \* the tool calls of the current assistant turn, in call order
    results,            \* what each call of the batch resolved to
    order,              \* the calls of the batch in the order their executions resolved
    append_idx,         \* the next result of the batch to append to memory
    calls_made,         \* tool calls the model has requested in this run
    step_calls,         \* step model calls issued in this run
    nudges,             \* completion nudges appended in this run
    files,              \* content of the files the tools write under output/<session>/
    last_response,      \* last_response of Agent._run_internal
    reflection,         \* how the reflection call of the step went, if one was made
    subagents,          \* the nested Agents started by the batch: call position -> its Memory and run
    research,           \* start_deep_research: where the orchestration is
    gate,               \* the LLMService of the agent: its rate-limit fields and the requests through it
    outcome             \* how the run ended

memvars == <<history, messages, max_turns, keep_last_n_turns, autosave,
             autosave_every, autosave_counter, saved, clock, issued, orphan, last,
             lock>>

agentvars == <<agent, pc, step_index, task_completed, completion_prompt_added,
               batch, results, order, append_idx, calls_made, step_calls, nudges,
               files, last_response, reflection, subagents, gate, research,
               outcome>>

vars == <<memvars, agentvars>>

----------------------------------------------------------------------------
(* Bounds of the model.                                                    *)

\* appends made to one Memory in a run of the memory specification
MaxAppends == 5
\* largest max_turns a run of the memory specification is configured with
MaxTurnsBound == 2
\* largest keep_last_n_turns a run of the memory specification is configured with
KeepBound == 2
\* appends made to one Memory in a run of the persistence specification
MaxSaveAppends == 4

----------------------------------------------------------------------------
(* Roles (memory.py:16-19) and values standing for absent keys.            *)

SYSTEM == "system"
ASSISTANT == "assistant"
USER == "user"
TOOL == "tool"

Roles == {SYSTEM, ASSISTANT, USER, TOOL}

\* a key that is not in a dict, or whose value is None
Absent == "absent"

\* tool_call ids the callers use
CallIds == {"call_a"}

\* a tool call as the model sees it: {id, function: {name}}
ToolCall(id, fname) == [id |-> id, name |-> fname]

\* the tool_calls lists a caller of the memory may pass (<<>>: none)
CallLists == {<<ToolCall(id, "lookup")>> : id \in CallIds}

----------------------------------------------------------------------------
(* Pure helpers of Memory.                                                 *)

Max(a, b) == IF a >= b THEN a ELSE b

\* utc_iso(): the timestamp read at time t
utc_iso(t) == t

\* the text a caller passes as the content of its k-th append
Text(k) == "m" \o ToString(k)

\* Memory._sanitize_for_model
sanitize_for_model(msg) ==
    LET role == IF msg.role \in Roles THEN msg.role ELSE ASSISTANT
    IN  [role |-> role,
         content |-> msg.content,
         tool_call_id |-> IF role = TOOL THEN msg.tool_call_id ELSE Absent,
         name |-> msg.name,
         tool_calls |-> IF role = ASSISTANT THEN msg.tool_calls ELSE <<>>]

\* the raw message Memory._add builds from its arguments
BuildMsg(role, content, tcid, name, calls) ==
    [role |-> role, content |-> content, tool_call_id |-> tcid,
     name |-> name, tool_calls |-> calls]

\* the audit metadata Memory._add builds (who defaults to the role)
BuildMeta(role, when, kind, tcid, name, calls) ==
    [who |-> role, when |-> when, synthetic |-> FALSE, kind |-> kind,
     tool_call_id |-> tcid, name |-> name, tool_calls |-> calls,
     summary_for_turns |-> -1]

\* a faulty test that takes every assistant record, the synthetic summary
\* included, for a turn start; C23 must tell it from the code's
is_real_assistant_turn_start_any_assistant(rec) == rec.msg.role = ASSISTANT

\* Memory._is_real_assistant_turn_start
is_real_assistant_turn_start(rec) ==
    rec.msg.role = ASSISTANT /\ ~rec.meta.synthetic

\* Memory._assistant_turn_starts_locked: the 0-based indices, as a set
assistant_turn_starts(h) ==
    {i \in 0..(Len(h) - 1) : is_real_assistant_turn_start(h[i + 1])}

\* Memory._count_user_turns_locked
count_user_turns(h) == Cardinality(assistant_turn_starts(h))

\* assistant_starts[-k]: the k-th largest index of a non-empty set of indices
RECURSIVE KthFromEnd(_, _)
KthFromEnd(S, k) ==
    LET m == CHOOSE x \in S : \A y \in S : y <= x
    IN  IF k = 1 THEN m ELSE KthFromEnd(S \ {m}, k - 1)

\* a faulty decision that already summarizes at max_turns real turns; C6
\* must tell it from the code's
summarize_decision_at_max(h, maxT, keepN) ==
    LET assistant_starts == assistant_turn_starts(h)
        real_turns == Cardinality(assistant_starts)
    IN  IF real_turns < maxT THEN [need |-> FALSE, boundary |-> -1]
        ELSE IF keepN = 0 THEN [need |-> TRUE, boundary |-> Len(h)]
        ELSE IF real_turns < keepN THEN [need |-> FALSE, boundary |-> -1]
        ELSE LET boundary == KthFromEnd(assistant_starts, keepN)
             IN  IF boundary <= 0 THEN [need |-> FALSE, boundary |-> -1]
                 ELSE [need |-> TRUE, boundary |-> boundary]

\* Memory._summarize_decision_locked: (need_summary, boundary_idx)
summarize_decision(h, maxT, keepN) ==
    LET assistant_starts == assistant_turn_starts(h)
        real_turns == Cardinality(assistant_starts)
    IN  IF real_turns <= maxT THEN [need |-> FALSE, boundary |-> -1]
        ELSE IF keepN = 0 THEN [need |-> TRUE, boundary |-> Len(h)]
        ELSE IF real_turns < keepN THEN [need |-> FALSE, boundary |-> -1]
        ELSE LET boundary == KthFromEnd(assistant_starts, keepN)
             IN  IF boundary <= 0 THEN [need |-> FALSE, boundary |-> -1]
                 ELSE [need |-> TRUE, boundary |-> boundary]

\* select the elements of a sequence that satisfy Test, in order
RECURSIVE SelectSeqMsgs(_)
SelectSeqMsgs(s) ==
    IF s = <<>> THEN <<>>
    ELSE LET rest == SelectSeqMsgs(Tail(s))
         IN  IF Head(s).msg.role # SYSTEM /\ Head(s).msg.role # USER
             THEN <<Head(s).msg>> \o rest ELSE rest

\* a faulty prefix that takes the message of every record before the
\* boundary, whatever its role; C38 must tell it from the code's
prefix_msgs_unfiltered(h, boundary) ==
    [i \in 1..(IF boundary <= Len(h) THEN boundary ELSE Len(h)) |-> h[i].msg]

\* a faulty prefix that also takes the record at the boundary and lets user
\* messages through; C22 must tell it from the code's
prefix_msgs_through_boundary(h, boundary) ==
    LET upto == SubSeq(h, 1, IF boundary + 1 <= Len(h) THEN boundary + 1 ELSE Len(h))
        kept == {i \in 1..Len(upto) : upto[i].msg.role # SYSTEM}
        nth(k) == CHOOSE i \in kept : Cardinality({j \in kept : j <= i}) = k
    IN  [k \in 1..Cardinality(kept) |-> upto[nth(k)].msg]

\* the prefix snapshot of Memory._add (memory.py:175-181)
prefix_msgs(h, boundary) ==
    SelectSeqMsgs(SubSeq(h, 1, IF boundary <= Len(h) THEN boundary ELSE Len(h)))

\* the summary texts: what the curator returns, and the stub used when it fails
CuratorText == "curator summary"
FallbackText == "Summary unavailable due to curator error."

\* the wrapped summary Memory._summarize returns at time t
WrapSummary(t, summary_text) ==
    "[Summary of earlier turns] [History Summary @ " \o ToString(utc_iso(t)) \o "] "
        \o summary_text

\* Memory._summarize: the curator call either returns or raises (llm_ok)
summarize(prefix, t, llm_ok) ==
    [request |-> [i \in 1..Len(prefix) |-> sanitize_for_model(prefix[i])],
     raised |-> FALSE,
     text |-> WrapSummary(t, IF llm_ok THEN CuratorText ELSE FallbackText)]

\* the synthetic record of a rewrite (memory.py:194-203)
SyntheticRecord(assistant_summary, boundary, t) ==
    [msg |-> BuildMsg(ASSISTANT, assistant_summary, Absent, Absent, <<>>),
     meta |-> [who |-> "system/curator", when |-> utc_iso(t), synthetic |-> TRUE,
               kind |-> "history_summary", tool_call_id |-> Absent,
               name |-> Absent, tool_calls |-> <<>>,
               summary_for_turns |-> boundary]]

\* a faulty rebuild that leaves the system message out of the view; C9 must
\* tell it from the code's
rebuild_messages_headless(h) ==
    [i \in 1..(Len(h) - 1) |-> sanitize_for_model(h[i + 1].msg)]

\* the model-facing view rebuilt from a history (memory.py:209-215)
rebuild_messages(h) == [i \in 1..Len(h) |-> sanitize_for_model(h[i].msg)]

----------------------------------------------------------------------------
(* Persistence.                                                            *)

\* Memory._json_ready on the values a history holds: strings, booleans,
\* integers, lists and dicts with string keys are returned as they are,
\* element by element
json_ready(value) == value

\* the payload Memory.save serialises (memory.py:112-118)
save_payload(h) ==
    [i \in 1..Len(h) |-> [message |-> json_ready(h[i].msg),
                          metadata |-> json_ready(h[i].meta)]]

\* a faulty write that appends to the file instead of truncating it; C10
\* must tell it from the code's
write_file_appending(old, payload) == old \o payload

\* open(path, "w") followed by json.dump: the file holds the payload alone
write_file(old, payload) == payload

\* Memory.save: io_ok is whether makedirs/open/dump succeed; a failure
\* raises and leaves the file as it was
save(h, file, io_ok) ==
    IF io_ok THEN [saved |-> write_file(file, save_payload(h)), raised |-> FALSE]
    ELSE [saved |-> file, raised |-> TRUE]

\* a faulty autosave that saves once its counter reached the threshold and
\* never resets it; C32 must tell it from the code's
autosave_if_enabled_no_reset(h, counter, file, io_ok) ==
    IF ~autosave THEN [counter |-> counter, saved |-> file, attempted |-> FALSE]
    ELSE IF counter + 1 < Max(1, autosave_every)
         THEN [counter |-> counter + 1, saved |-> file, attempted |-> FALSE]
         ELSE [counter |-> counter + 1, saved |-> save(h, file, io_ok).saved,
               attempted |-> TRUE]

\* Memory._autosave_if_enabled: the counter and the file afterwards; a
\* failing save is logged and swallowed
autosave_if_enabled(h, counter, file, io_ok) ==
    IF ~autosave THEN [counter |-> counter, saved |-> file, attempted |-> FALSE]
    ELSE IF counter + 1 < Max(1, autosave_every)
         THEN [counter |-> counter + 1, saved |-> file, attempted |-> FALSE]
         ELSE [counter |-> 0, saved |-> save(h, file, io_ok).saved, attempted |-> TRUE]

----------------------------------------------------------------------------
(* Memory._add, on a memory state M = [history, messages, counter, saved]. *)

\* a faulty rewrite that puts the synthetic record behind the kept records;
\* C35 must tell it from the code's
rewrite_history_summary_last(h, boundary, synth) ==
    IF Len(h) < 2 THEN [history |-> <<h[1]>>, raised |-> TRUE]
    ELSE [history |-> <<h[1], h[2]>> \o SubSeq(h, boundary + 1, Len(h)) \o <<synth>>,
          raised |-> FALSE]

\* a faulty rewrite that keeps every record behind the seed, whatever the
\* boundary; C34 must tell it from the code's
rewrite_history_keeping_all(h, boundary, synth) ==
    IF Len(h) < 2 THEN [history |-> <<h[1]>>, raised |-> TRUE]
    ELSE [history |-> <<h[1], h[2], synth>> \o SubSeq(h, 3, Len(h)),
          raised |-> FALSE]

\* a faulty rewrite that keeps the records after the boundary record only;
\* C5 must tell it from the code's
rewrite_history_past_boundary(h, boundary, synth) ==
    IF Len(h) < 2 THEN [history |-> <<h[1]>>, raised |-> TRUE]
    ELSE [history |-> <<h[1], h[2], synth>> \o SubSeq(h, boundary + 2, Len(h)),
          raised |-> FALSE]

\* the rewrite of memory.py:185-206 on snapshot h; h[2] is read even when
\* h has one record, which raises IndexError after history was cleared and
\* snapshot[0] appended
rewrite_history(h, boundary, synth) ==
    IF Len(h) < 2 THEN [history |-> <<h[1]>>, raised |-> TRUE]
    ELSE [history |-> <<h[1], h[2], synth>> \o SubSeq(h, boundary + 1, Len(h)),
          raised |-> FALSE]

\* Memory._add with the record already built, at time t
add_record(M, rec, t, llm_ok, io_ok) ==
    LET h1 == Append(M.history, rec)
        m1 == Append(M.messages, sanitize_for_model(rec.msg))
        d == summarize_decision(h1, max_turns, keep_last_n_turns)
    IN  IF ~d.need
        THEN LET a == autosave_if_enabled(h1, M.counter, M.saved, io_ok)
             IN  [history |-> h1, messages |-> m1, counter |-> a.counter,
                  saved |-> a.saved, raised |-> FALSE, summarizer |-> "none",
                  request |-> <<>>, boundary |-> d.boundary, rec |-> rec,
                  autosaved |-> a.attempted]
        ELSE LET s == summarize(prefix_msgs(h1, d.boundary), t, llm_ok)
                 synth == SyntheticRecord(s.text, d.boundary, t)
                 w == rewrite_history(h1, d.boundary, synth)
             IN  IF s.raised
                 THEN [history |-> h1, messages |-> m1, counter |-> M.counter,
                       saved |-> M.saved, raised |-> TRUE, summarizer |-> "failed",
                       request |-> s.request, boundary |-> d.boundary, rec |-> rec,
                       autosaved |-> FALSE]
                 ELSE IF w.raised
                 THEN [history |-> w.history, messages |-> m1, counter |-> M.counter,
                       saved |-> M.saved, raised |-> TRUE,
                       summarizer |-> IF llm_ok THEN "ok" ELSE "failed",
                       request |-> s.request, boundary |-> d.boundary, rec |-> rec,
                       autosaved |-> FALSE]
                 ELSE LET a == autosave_if_enabled(w.history, M.counter, M.saved, io_ok)
                      IN  [history |-> w.history,
                           messages |-> rebuild_messages(w.history),
                           counter |-> a.counter, saved |-> a.saved,
                           raised |-> FALSE,
                           summarizer |-> IF llm_ok THEN "ok" ELSE "failed",
                           request |-> s.request, boundary |-> d.boundary,
                           rec |-> rec, autosaved |-> a.attempted]

\* Memory._add(role, content, **meta) at time t
add(M, role, content, tcid, name, calls, kind, t, llm_ok, io_ok) ==
    add_record(M,
               [msg |-> BuildMsg(role, content, tcid, name, calls),
                meta |-> BuildMeta(role, utc_iso(t), kind, tcid, name, calls)],
               t, llm_ok, io_ok)

\* Memory.get_model_messages
get_model_messages == messages

\* Memory._get_full_history
get_full_history == history

\* the memory state the operations read
Mem == [history |-> history, messages |-> messages,
        counter |-> autosave_counter, saved |-> saved]

\* a record that stands for "no record" in last
NoRec == [msg |-> BuildMsg(Absent, Absent, Absent, Absent, <<>>),
          meta |-> BuildMeta(Absent, 0, Absent, Absent, Absent, <<>>)]

----------------------------------------------------------------------------
(* The public operations of Memory as actions.                             *)

\* the outcomes of the curator call that an append of a role can meet: the
\* call is made only when the append triggers a summarization
LlmOutcomes(role) ==
    IF summarize_decision(Append(history, [msg |-> BuildMsg(role, "", Absent, Absent, <<>>),
                                           meta |-> BuildMeta(role, 0, "", Absent, Absent, <<>>)]),
                          max_turns, keep_last_n_turns).need
    THEN BOOLEAN ELSE {TRUE}

\* the outcomes of the disk write of an autosave: made only with autosave on
IoOutcomes == IF autosave THEN BOOLEAN ELSE {TRUE}

\* the memory after n appends of which r is the result of the last
CommitMem(r, n) ==
    /\ history' = r.history
    /\ messages' = r.messages
    /\ autosave_counter' = r.counter
    /\ saved' = r.saved
    /\ clock' = clock + n
    /\ issued' = issued \cup {r.rec.msg.tool_calls[i].id :
                                i \in 1..Len(r.rec.msg.tool_calls)}
    /\ orphan' = (orphan \/ (r.rec.msg.role = TOOL
                             /\ r.rec.msg.tool_call_id \notin issued))
    /\ last' = [op |-> "add", raised |-> r.raised, summarizer |-> r.summarizer,
                request |-> r.request, boundary |-> r.boundary, rec |-> r.rec,
                autosaved |-> r.autosaved, prev_op |-> last.op,
                prev_raised |-> last.raised]
    /\ UNCHANGED <<max_turns, keep_last_n_turns, autosave, autosave_every,
                   lock>>

\* one append through the public API by a caller that is not an agent
CommitAdd(r) == CommitMem(r, 1) /\ UNCHANGED agentvars

\* Memory.add_system_message
add_system_message ==
    /\ clock < MaxAppends
    /\ \E llm_ok \in LlmOutcomes(SYSTEM), io_ok \in IoOutcomes :
          CommitAdd(add(Mem, SYSTEM, Text(clock + 1), Absent, Absent, <<>>,
                        "system_prompt", clock + 1, llm_ok, io_ok))

\* Memory.add_user_message
add_user_message ==
    /\ clock < MaxAppends
    /\ \E llm_ok \in LlmOutcomes(USER), io_ok \in IoOutcomes :
          CommitAdd(add(Mem, USER, Text(clock + 1), Absent, Absent, <<>>,
                        "user_msg", clock + 1, llm_ok, io_ok))

\* Memory.add_assistant_message
add_assistant_message ==
    /\ clock < MaxAppends
    /\ \E llm_ok \in LlmOutcomes(ASSISTANT), io_ok \in IoOutcomes :
          CommitAdd(add(Mem, ASSISTANT, Text(clock + 1), Absent, Absent, <<>>,
                        "assistant_msg", clock + 1, llm_ok, io_ok))

\* Memory.add_assistant_message_with_tool_calls
add_assistant_message_with_tool_calls ==
    /\ clock < MaxAppends
    /\ \E calls \in CallLists, llm_ok \in LlmOutcomes(ASSISTANT), io_ok \in IoOutcomes :
          CommitAdd(add(Mem, ASSISTANT, Text(clock + 1), Absent, Absent, calls,
                        "assistant_tool_call", clock + 1, llm_ok, io_ok))

\* Memory.add_tool_message
add_tool_message ==
    /\ clock < MaxAppends
    /\ \E id \in CallIds, llm_ok \in LlmOutcomes(TOOL), io_ok \in IoOutcomes :
          CommitAdd(add(Mem, TOOL, Text(clock + 1), id, Absent, <<>>,
                        "tool_msg", clock + 1, llm_ok, io_ok))

\* Memory.save called by the owner of the memory
Save ==
    /\ \E io_ok \in BOOLEAN :
          LET r == save(history, saved, io_ok)
          IN  /\ saved' = r.saved
              /\ last' = [op |-> "save", raised |-> r.raised, summarizer |-> "none",
                          request |-> <<>>, boundary |-> -1, rec |-> NoRec,
                          autosaved |-> FALSE, prev_op |-> last.op,
                          prev_raised |-> last.raised]
    /\ UNCHANGED <<history, messages, max_turns, keep_last_n_turns, autosave,
                   autosave_every, autosave_counter, clock, issued, orphan,
                   lock>>
    /\ UNCHANGED agentvars

\* last_response before any step ran ({}, agent.py:179) and the result run
\* returns in its place ({"choices": []}, agent.py:380)
NoResponse == "{}"
EmptyResult == "{choices: []}"

\* no LLMService has been constructed
NoGate == [built |-> FALSE]

\* start_deep_research has not been called: the agent was started directly
NoResearch == [pc |-> "none"]

\* no agent owns the memory: it is driven through its public API
NoAgent ==
    /\ agent = [has_user |-> FALSE, tools |-> {}, max_steps |-> 0,
                enable_interleaved_thinking |-> FALSE]
    /\ pc = "none"
    /\ step_index = 0
    /\ task_completed = FALSE
    /\ completion_prompt_added = FALSE
    /\ batch = <<>>
    /\ results = <<>>
    /\ order = <<>>
    /\ append_idx = 0
    /\ calls_made = 0
    /\ step_calls = 0
    /\ nudges = 0
    /\ files = [f \in {} |-> Absent]
    /\ last_response = NoResponse
    /\ reflection = "none"
    /\ subagents = <<>>
    /\ gate = NoGate
    /\ research = NoResearch
    /\ outcome = "none"

\* a Memory as its constructor leaves it (memory.py:50-61), with no records
EmptyMemory ==
    /\ history = <<>>
    /\ messages = <<>>
    /\ autosave_counter = 0
    /\ saved = <<>>
    /\ clock = 0
    /\ issued = {}
    /\ orphan = FALSE
    /\ lock = [holder |-> <<>>, waiters |-> <<>>]
    /\ last = [op |-> "init", raised |-> FALSE, summarizer |-> "none",
               request |-> <<>>, boundary |-> -1, rec |-> NoRec,
               autosaved |-> FALSE, prev_op |-> "init", prev_raised |-> FALSE]

\* a Memory constructed with thresholds within the bounds and autosave at
\* its default (off)
Init ==
    /\ EmptyMemory
    /\ NoAgent
    /\ max_turns \in 0..MaxTurnsBound
    /\ keep_last_n_turns \in 0..KeepBound
    /\ autosave = FALSE
    /\ autosave_every = 1

\* the appends of one caller, in any order of roles
Next ==
    \/ add_system_message
    \/ add_user_message
    \/ add_assistant_message
    \/ add_assistant_message_with_tool_calls
    \/ add_tool_message

Spec == Init /\ [][Next]_vars

\* the appends and explicit saves of one caller, on a memory that summarizes
\* from its second assistant turn on and keeps one turn (save reads neither
\* threshold)
InitSave == Init /\ max_turns = 1 /\ keep_last_n_turns = 1

NextSave ==
    \/ (clock < MaxSaveAppends /\ Next)
    \/ Save

SpecSave == InitSave /\ [][NextSave]_vars

\* the largest autosave_every of the autosave specification
MaxAutosaveEvery == 3

\* the appends of one caller on a memory that saves itself after every
\* autosave_every-th append, with a disk that may refuse a write
InitAutosave ==
    /\ EmptyMemory
    /\ NoAgent
    /\ max_turns = 1
    /\ keep_last_n_turns = 1
    /\ autosave = TRUE
    /\ autosave_every \in 1..MaxAutosaveEvery

NextAutosave == clock < MaxSaveAppends /\ Next

SpecAutosave == InitAutosave /\ [][NextAutosave]_vars

----------------------------------------------------------------------------
(* Concurrent appends to one Memory. Memory._add takes Memory._lock twice: *)
(* once to append the record and decide (memory.py:154-167), once more to  *)
(* summarize and rewrite (memory.py:174-215). Tasks of one event loop run  *)
(* until they await; an asyncio.Lock that is free but has waiters makes a  *)
(* new acquirer queue behind them.                                         *)

\* append calls made to one Memory in a run of the concurrent specification
MaxConcAppends == 5

\* the roles of the concurrent calls (add_system_message, add_user_message,
\* add_assistant_message)
ConcRoles == {SYSTEM, USER, ASSISTANT}

\* the kind each of these calls passes to Memory._add
ConcKind(role) ==
    IF role = SYSTEM THEN "system_prompt"
    ELSE IF role = USER THEN "user_msg" ELSE "assistant_msg"

\* the record Memory._add builds before it takes the lock (memory.py:126-152)
ConcRecord(role, t) ==
    [msg |-> BuildMsg(role, Text(t), Absent, Absent, <<>>),
     meta |-> BuildMeta(role, utc_iso(t), ConcKind(role), Absent, Absent, <<>>)]

\* what an operation of the concurrent specification leaves in last
ConcLast(op, raised, summarizer, request, boundary, rec) ==
    [op |-> op, raised |-> raised, summarizer |-> summarizer, request |-> request,
     boundary |-> boundary, rec |-> rec, autosaved |-> FALSE,
     prev_op |-> last.op, prev_raised |-> last.raised]

\* the first lock section of Memory._add for record rec (memory.py:154-171),
\* run by a task that has the lock; others is the queue of waiters it
\* leaves behind. With no summary needed the append is over. Otherwise the
\* task takes the lock again: at once when nobody waits, holding it across
\* the curator call, and behind the waiters when there are any.
FirstSection(rec, others) ==
    LET h1 == Append(history, rec)
        d == summarize_decision(h1, max_turns, keep_last_n_turns)
    IN  /\ history' = h1
        /\ messages' = Append(messages, sanitize_for_model(rec.msg))
        /\ lock' = IF ~d.need THEN [holder |-> <<>>, waiters |-> others]
                   ELSE IF others = <<>>
                   THEN [holder |-> <<[rec |-> rec, boundary |-> d.boundary]>>,
                         waiters |-> <<>>]
                   ELSE [holder |-> <<>>,
                         waiters |-> Append(others, [rec |-> rec, section |-> 2,
                                                     boundary |-> d.boundary])]
        /\ last' = ConcLast("append", FALSE, "none", <<>>, d.boundary, rec)

\* a task calls an add_*_message: with the lock free and nobody waiting it
\* runs the first section at once, otherwise it waits for the lock
ConcCall ==
    /\ clock < MaxConcAppends
    /\ \E role \in ConcRoles :
          LET rec == ConcRecord(role, clock + 1)
          IN  IF lock.holder = <<>> /\ lock.waiters = <<>>
              THEN FirstSection(rec, <<>>)
              ELSE /\ lock' = [lock EXCEPT !.waiters =
                                   Append(@, [rec |-> rec, section |-> 1,
                                              boundary |-> -1])]
                   /\ last' = ConcLast("wait", FALSE, "none", <<>>, -1, rec)
                   /\ UNCHANGED <<history, messages>>
    /\ clock' = clock + 1
    /\ UNCHANGED <<max_turns, keep_last_n_turns, autosave, autosave_every,
                   autosave_counter, saved, issued, orphan>>
    /\ UNCHANGED agentvars

\* the lock was released and its first waiter runs: into the first section,
\* or into the second with the boundary it computed in its first
ConcWake ==
    /\ lock.holder = <<>>
    /\ lock.waiters # <<>>
    /\ LET w == Head(lock.waiters)
           others == Tail(lock.waiters)
       IN  IF w.section = 1
           THEN FirstSection(w.rec, others)
           ELSE /\ lock' = [holder |-> <<[rec |-> w.rec, boundary |-> w.boundary]>>,
                            waiters |-> others]
                /\ last' = ConcLast("locked", FALSE, "none", <<>>, w.boundary, w.rec)
                /\ UNCHANGED <<history, messages>>
    /\ UNCHANGED <<max_turns, keep_last_n_turns, autosave, autosave_every,
                   autosave_counter, saved, clock, issued, orphan>>
    /\ UNCHANGED agentvars

\* the curator call of the lock's holder returns or raises and the second
\* section runs to its end (memory.py:174-215): prefix, summary, rewrite of
\* the history as it is now with the holder's boundary, rebuilt view. The
\* lock is released. Autosave is off in this specification.
ConcRewrite ==
    /\ lock.holder # <<>>
    /\ \E llm_ok \in BOOLEAN :
          LET b == lock.holder[1].boundary
              s == summarize(prefix_msgs(history, b), clock, llm_ok)
              synth == SyntheticRecord(s.text, b, clock)
              w == rewrite_history(history, b, synth)
          IN  /\ history' = w.history
              /\ messages' = IF w.raised THEN messages
                             ELSE rebuild_messages(w.history)
              /\ last' = ConcLast("rewrite", w.raised,
                                  IF llm_ok THEN "ok" ELSE "failed",
                                  s.request, b, lock.holder[1].rec)
    /\ lock' = [lock EXCEPT !.holder = <<>>]
    /\ UNCHANGED <<max_turns, keep_last_n_turns, autosave, autosave_every,
                   autosave_counter, saved, clock, issued, orphan>>
    /\ UNCHANGED agentvars

NextConc ==
    \/ ConcCall
    \/ ConcWake
    \/ ConcRewrite

SpecConc == Init /\ [][NextConc]_vars

----------------------------------------------------------------------------
(* Concurrent appends, reads and saves on one Memory with autosave on.     *)
(* Every operation takes Memory._lock with async with: _add twice          *)
(* (memory.py:154, 174), get_model_messages once (memory.py:102), save     *)
(* once (memory.py:111), the save of an autosave included. A task runs     *)
(* until it awaits: it waits for the lock when it is held or others wait,  *)
(* and it holds the lock across the curator call.                          *)

\* calls made to one Memory in a run of the lock specification
MaxLockOps == 3

\* the roles of the appends of the lock specification
LockRoles == {USER, ASSISTANT}

\* a call that waits for the lock: what it will do when it gets it
LockWaiter(op, t, rec, boundary) ==
    [op |-> op, t |-> t, rec |-> rec, boundary |-> boundary]

\* the call that holds the lock across an await, and what it awaits
LockHolder(t, rec, boundary, awaiting) ==
    [t |-> t, rec |-> rec, boundary |-> boundary, awaiting |-> awaiting]

\* what an operation of the lock specification leaves in last: t is the
\* call, seen what a read was handed
LockLast(op, t, raised, summarizer, request, boundary, rec, seen) ==
    [op |-> op, t |-> t, raised |-> raised, summarizer |-> summarizer,
     request |-> request, boundary |-> boundary, rec |-> rec, autosaved |-> FALSE,
     seen |-> seen, prev_op |-> last.op, prev_raised |-> last.raised]

\* a faulty _add that calls _autosave_if_enabled inside its async with
\* block; C40 must tell it from the code's
lock_at_autosave_held(t, others) ==
    [holder |-> <<LockHolder(t, NoRec, -1, "lock")>>, waiters |-> others]

\* the lock when _add reaches _autosave_if_enabled: both calls stand after
\* the async with block (memory.py:169-171, 217), so the lock is released
\* and the waiters are as they were
lock_at_autosave(t, others) == [holder |-> <<>>, waiters |-> others]

\* Memory.save by call t once it has the lock: the payload is taken under
\* the lock and written after it is released (memory.py:111-121)
LockSaves(op, t, h, others) ==
    \E io_ok \in BOOLEAN :
       /\ saved' = save(h, saved, io_ok).saved
       /\ lock' = [holder |-> <<>>, waiters |-> others]
       /\ last' = LockLast(op, t, op = "save" /\ ~io_ok, "none", <<>>, -1, NoRec,
                           save_payload(h))

\* Memory._autosave_if_enabled by call t at the end of its append, on
\* history h with the lock as l; done is what the append leaves in last
\* when no save runs at once
LockAutosave(t, h, l, done) ==
    IF ~autosave \/ autosave_counter + 1 < Max(1, autosave_every)
    THEN /\ autosave_counter' = IF autosave THEN autosave_counter + 1
                                ELSE autosave_counter
         /\ lock' = [holder |-> <<>>, waiters |-> l.waiters]
         /\ last' = done
         /\ UNCHANGED saved
    ELSE /\ autosave_counter' = 0
         /\ IF l.holder = <<>> /\ l.waiters = <<>>
            THEN LockSaves("autosave", t, h, <<>>)
            ELSE /\ lock' = [l EXCEPT !.waiters =
                                 Append(@, LockWaiter("autosave", t, NoRec, -1))]
                 /\ last' = done
                 /\ UNCHANGED saved

\* the first lock section of Memory._add by call t (memory.py:154-171),
\* run with the lock; others wait behind it
LockFirstSection(t, rec, others) ==
    LET h1 == Append(history, rec)
        d == summarize_decision(h1, max_turns, keep_last_n_turns)
        done == LockLast("append", t, FALSE, "none", <<>>, d.boundary, rec, <<>>)
    IN  /\ history' = h1
        /\ messages' = Append(messages, sanitize_for_model(rec.msg))
        /\ IF ~d.need
           THEN LockAutosave(t, h1, lock_at_autosave(t, others), done)
           ELSE /\ lock' = IF others = <<>>
                           THEN [holder |-> <<LockHolder(t, rec, d.boundary, "curator")>>,
                                 waiters |-> <<>>]
                           ELSE [holder |-> <<>>,
                                 waiters |-> Append(others,
                                                    LockWaiter("second", t, rec, d.boundary))]
                /\ last' = done
                /\ UNCHANGED <<autosave_counter, saved>>

\* Memory.get_model_messages by call t once it has the lock
LockReads(t, others) ==
    /\ lock' = [holder |-> <<>>, waiters |-> others]
    /\ last' = LockLast("get", t, FALSE, "none", <<>>, -1, NoRec, messages)
    /\ UNCHANGED <<history, messages, autosave_counter, saved>>

\* a task calls add_user_message, add_assistant_message, get_model_messages
\* or save: with the lock free and nobody waiting it goes ahead, otherwise
\* it waits for the lock
LockCall ==
    /\ clock < MaxLockOps
    /\ LET t == clock + 1
           free == lock.holder = <<>> /\ lock.waiters = <<>>
           waits(op, rec) ==
               /\ lock' = [lock EXCEPT !.waiters = Append(@, LockWaiter(op, t, rec, -1))]
               /\ last' = LockLast("wait", t, FALSE, "none", <<>>, -1, rec, <<>>)
               /\ UNCHANGED <<history, messages, autosave_counter, saved>>
       IN  \/ \E role \in LockRoles :
                 IF free THEN LockFirstSection(t, ConcRecord(role, t), <<>>)
                 ELSE waits("first", ConcRecord(role, t))
           \/ IF free THEN LockReads(t, <<>>) ELSE waits("get", NoRec)
           \/ IF free
              THEN LockSaves("save", t, history, <<>>)
                   /\ UNCHANGED <<history, messages, autosave_counter>>
              ELSE waits("save", NoRec)
    /\ clock' = clock + 1
    /\ UNCHANGED <<max_turns, keep_last_n_turns, autosave, autosave_every,
                   issued, orphan>>
    /\ UNCHANGED agentvars

\* the lock was released and its first waiter runs
LockWake ==
    /\ lock.holder = <<>>
    /\ lock.waiters # <<>>
    /\ LET w == Head(lock.waiters)
           others == Tail(lock.waiters)
       IN  IF w.op = "first" THEN LockFirstSection(w.t, w.rec, others)
           ELSE IF w.op = "second"
           THEN /\ lock' = [holder |-> <<LockHolder(w.t, w.rec, w.boundary, "curator")>>,
                            waiters |-> others]
                /\ last' = LockLast("locked", w.t, FALSE, "none", <<>>, w.boundary,
                                    w.rec, <<>>)
                /\ UNCHANGED <<history, messages, autosave_counter, saved>>
           ELSE IF w.op = "get" THEN LockReads(w.t, others)
           ELSE /\ LockSaves(w.op, w.t, history, others)
                /\ UNCHANGED <<history, messages, autosave_counter>>
    /\ UNCHANGED <<max_turns, keep_last_n_turns, autosave, autosave_every,
                   clock, issued, orphan>>
    /\ UNCHANGED agentvars

\* the curator call of the lock's holder returns or raises and the second
\* section of its append runs to its end (memory.py:174-217): the rewrite,
\* the rebuilt view, the release of the lock, then the autosave; a rewrite
\* that raises releases the lock and skips the autosave
LockRewrite ==
    /\ lock.holder # <<>>
    /\ lock.holder[1].awaiting = "curator"
    /\ \E llm_ok \in BOOLEAN :
          LET me == lock.holder[1]
              s == summarize(prefix_msgs(history, me.boundary), clock, llm_ok)
              synth == SyntheticRecord(s.text, me.boundary, clock)
              w == rewrite_history(history, me.boundary, synth)
              done == LockLast("rewrite", me.t, w.raised,
                               IF llm_ok THEN "ok" ELSE "failed", s.request,
                               me.boundary, me.rec, <<>>)
          IN  /\ history' = w.history
              /\ IF w.raised
                 THEN /\ lock' = [lock EXCEPT !.holder = <<>>]
                      /\ last' = done
                      /\ UNCHANGED <<messages, autosave_counter, saved>>
                 ELSE /\ messages' = rebuild_messages(w.history)
                      /\ LockAutosave(me.t, w.history,
                                      lock_at_autosave(me.t, lock.waiters), done)
    /\ UNCHANGED <<max_turns, keep_last_n_turns, autosave, autosave_every,
                   clock, issued, orphan>>
    /\ UNCHANGED agentvars

\* a memory that summarizes from its second assistant turn on, keeps one
\* turn and saves itself after every append
InitLock ==
    /\ EmptyMemory
    /\ NoAgent
    /\ max_turns = 1
    /\ keep_last_n_turns = 1
    /\ autosave = TRUE
    /\ autosave_every = 1

NextLock ==
    \/ LockCall
    \/ LockWake
    \/ LockRewrite

SpecLock == InitLock /\ [][NextLock]_vars

\* the event loop runs every task that is ready, and the curator call
\* returns or raises
SpecLockFair == SpecLock /\ WF_vars(LockWake) /\ WF_vars(LockRewrite)

----------------------------------------------------------------------------
(* The agent (deep_research/agents/agent.py) and its tool executor         *)
(* (deep_research/tools/executor.py).                                      *)

\* steps the longest run of the agent specification may take (its max_steps)
MaxSteps == 12
\* tool calls the model requests in one run of MaxSteps steps
MaxToolCalls == 1
\* largest max_steps of the short runs of the agent specification
MaxBatchSteps == 2
\* tool calls the model requests in one short run, in batches of any size
MaxBatchCalls == 2

\* the thresholds and autosave period of the Memory an Agent constructs
\* (Memory's defaults, and Agent's autosave_every default)
DefaultKeepLastNTurns == 5
DefaultMaxTurns == 10
DefaultAutosaveEvery == 1

\* ToolName (definitions.py:12-18)
WEB_SEARCH == "web_search"
WEB_EXTRACT == "web_extract"
RUN_SUBAGENT == "run_subagent"
SAVE_RESEARCH_PLAN == "save_research_plan"
COMPLETE_TASK == "complete_task"
COMPLETE_SUB_TASK == "complete_sub_task"

\* the tool set of the lead agent (research.py:20-24)
LeadTools == {RUN_SUBAGENT, SAVE_RESEARCH_PLAN, COMPLETE_TASK}

\* the tool set of a sub-agent (executor.py:170-174)
SubTools == {WEB_EXTRACT, WEB_SEARCH, COMPLETE_SUB_TASK}

\* a tool set the constructor accepts that holds no completion tool
SearchTools == {WEB_SEARCH}

\* an Agent's configuration
AgentConfig(u, t, n, i) ==
    [has_user |-> u, tools |-> t, max_steps |-> n, enable_interleaved_thinking |-> i]

\* the agents of the specification.  Long runs: a sub-agent whose prompt may
\* be empty (then no user message is seeded), and a sub-agent with
\* interleaved thinking enabled.  Short runs: every tool set, and a sub-agent
\* with interleaved thinking, for every step budget up to MaxBatchSteps.
AgentConfigs ==
    {AgentConfig(u, SubTools, MaxSteps, FALSE) : u \in BOOLEAN}
    \cup {AgentConfig(TRUE, SubTools, MaxSteps, TRUE)}
    \cup {AgentConfig(TRUE, t, n, FALSE) :
             t \in {LeadTools, SubTools, SearchTools}, n \in 0..MaxBatchSteps}
    \cup {AgentConfig(TRUE, SubTools, n, TRUE) : n \in 0..MaxBatchSteps}

\* tool calls the model requests in a run of agent a
CallBudget(a) == IF a.max_steps > MaxBatchSteps THEN MaxToolCalls ELSE MaxBatchCalls

\* the tool names the model asks for: the tools advertised to it, with
\* web_search standing for both search tools, and, in a short run, one name
\* that is not on the agent's allow-list
RequestedNames(a) ==
    IF a.max_steps > MaxBatchSteps THEN a.tools \ {WEB_EXTRACT}
    ELSE (a.tools \ {WEB_EXTRACT})
            \cup {IF WEB_SEARCH \in a.tools THEN RUN_SUBAGENT ELSE WEB_SEARCH}

\* the texts the agent writes to memory
SystemPrompt == "system prompt"
InitialUserMessage == "task"
INTERLEAVED_THINKING_PROMPT == "Reflect on the latest tool results"
ReflectionText(k) == "[Reflection] " \o Text(k)

\* a faulty choice that knows the top-level completion tool only; C14 must
\* tell it from the code's
get_completion_tool_name_top_only(available) ==
    IF COMPLETE_TASK \in available THEN COMPLETE_TASK ELSE Absent

\* Agent._get_completion_tool_name
get_completion_tool_name(available) ==
    IF COMPLETE_TASK \in available THEN COMPLETE_TASK
    ELSE IF COMPLETE_SUB_TASK \in available THEN COMPLETE_SUB_TASK
    ELSE Absent

\* Agent._build_max_step_completion_prompt
build_max_step_completion_prompt(available) ==
    LET tool_name == get_completion_tool_name(available)
    IN  IF tool_name = Absent THEN Absent
        ELSE IF tool_name = COMPLETE_SUB_TASK
             THEN "max steps reached: call complete_sub_task"
             ELSE "max steps reached: call complete_task"

\* the id of the k-th tool call the model requests in a run
CallId(k) == "call_" \o ToString(k)

\* the tool_calls lists of n calls the model may answer with when it has
\* requested made calls so far
RECURSIVE CallBatches(_, _, _)
CallBatches(names, made, n) ==
    IF n = 0 THEN {<<>>}
    ELSE {<<ToolCall(CallId(made + 1), t)>> \o rest :
             t \in names, rest \in CallBatches(names, made + 1, n - 1)}

\* the tool_calls lists the model may answer with: 1 to budget - made calls
ModelBatches(names, made, budget) ==
    UNION {CallBatches(names, made, n) : n \in 1..(budget - made)}

\* the files under output/<session>/ the tools write
FileNames == {"research_plan.md", "report.md", "sub_report.md"}
NoFiles == [f \in FileNames |-> Absent]

\* the text argument of a call: its research_plan, final_report or sub_report
ArgOf(call) == "text of " \o call.id

\* a faulty write that leaves the file as it was; C16 must tell it from the
\* code's
write_to_file_nowhere(fs, file_name, content) == fs

\* ToolExecutor._write_to_file: open(file_path, "w") and write
write_to_file(fs, file_name, content) == [fs EXCEPT ![file_name] = content]

\* the primitive kinds of value an argument can carry
ValueKinds == {"string", "integer", "boolean", "array"}

\* the types the properties of each tool's schema declare
\* (definitions.py:22-207)
FieldTypes(tool_name) ==
    IF tool_name = WEB_SEARCH THEN {"string", "integer", "boolean", "array"}
    ELSE IF tool_name = WEB_EXTRACT THEN {"array", "boolean", "string"}
    ELSE {"string"}

\* the arguments of a call as far as validation reads them: whether a
\* required field is missing, and one field of the schema, by its declared
\* type, with the kind of value it carries (the other fields conform)
ToolInputs(tool_name) ==
    [missing : {FALSE}, declared : FieldTypes(tool_name), kind : ValueKinds]
    \cup {[missing |-> TRUE, declared |-> "string", kind |-> "string"]}

\* the arguments conform to the schema: nothing required is missing and the
\* field carries a value of its declared type
conforms_to_schema(tool_input) ==
    ~tool_input.missing /\ tool_input.kind = tool_input.declared

\* isinstance(value, str / int / bool / list) for a value of a JSON kind:
\* Python's bool is a subclass of int
isinstance_of(declared, kind) ==
    IF declared = "integer" THEN kind \in {"integer", "boolean"}
    ELSE kind = declared

\* validate_tool_input (definitions.py:264-301): TRUE when it returns, FALSE
\* when it raises ValueError
validate_tool_input(tool_name, tool_input) ==
    /\ ~tool_input.missing
    /\ tool_input.declared \in FieldTypes(tool_name)
          => isinstance_of(tool_input.declared, tool_input.kind)

\* what a call meets when it executes: its arguments, and a handler that
\* raises (the search service, the disk, the nested run) or works
ToolEnvs(tool_name) == [args : ToolInputs(tool_name), world : {"fails", "works"}]

\* an execution that has not resolved yet
PendingResult ==
    [status |-> "pending", stages |-> <<>>, error |-> Absent, nested |-> "none",
     args |-> "unread"]

\* execute_tool raised a ToolExecutionError after passing these stages
Raised(why, stages) ==
    [status |-> "exc", stages |-> stages, error |-> why, nested |-> "none",
     args |-> "unread"]

\* execute_tool returned its envelope ("done" when it carries task_completed)
Returned(status, stages) ==
    [status |-> status, stages |-> stages, error |-> Absent, nested |-> "none",
     args |-> "unread"]

\* what the executor saw of the arguments of a call that went through these
\* stages: nothing when the call was turned away before validation,
\* otherwise arguments that conform to the schema or do not
args_read(r, tool_input) ==
    IF r.stages = <<>> THEN "unread"
    ELSE IF conforms_to_schema(tool_input) THEN "conforming" ELSE "nonconforming"

\* a faulty executor that dispatches without consulting the allow-list; C17
\* must tell it from the code's
execute_tool_unchecked(available, call, env, fs) ==
    IF ~validate_tool_input(call.name, env.args)
    THEN [result |-> Raised("invalid", <<"validate">>), files |-> fs]
    ELSE IF env.world = "fails" /\ call.name # RUN_SUBAGENT
    THEN [result |-> Raised("failed", <<"validate", call.name>>), files |-> fs]
    ELSE IF call.name = RUN_SUBAGENT
    THEN [result |-> [status |-> "nested", stages |-> <<"validate", call.name>>,
                      error |-> Absent, nested |-> "running", args |-> "unread"],
          files |-> fs]
    ELSE [result |-> Returned("ok", <<"validate", call.name>>), files |-> fs]

\* ToolExecutor.execute_tool on a call, up to the point where it returns,
\* raises or awaits a nested run: the result and the files afterwards
execute_tool(available, call, env, fs) ==
    IF call.name \notin available
    THEN [result |-> Raised("not_allowed", <<>>), files |-> fs]
    ELSE IF ~validate_tool_input(call.name, env.args)
    THEN [result |-> Raised("invalid", <<"validate">>), files |-> fs]
    ELSE IF env.world = "fails" /\ call.name # RUN_SUBAGENT
    THEN [result |-> Raised("failed", <<"validate", call.name>>), files |-> fs]
    ELSE IF call.name \in {WEB_SEARCH, WEB_EXTRACT}
    THEN [result |-> Returned("ok", <<"validate", call.name>>), files |-> fs]
    ELSE IF call.name = RUN_SUBAGENT
    THEN [result |-> [status |-> "nested", stages |-> <<"validate", call.name>>,
                      error |-> Absent, nested |-> "running", args |-> "unread"],
          files |-> fs]
    ELSE IF call.name = SAVE_RESEARCH_PLAN
    THEN [result |-> Returned("ok", <<"validate", call.name>>),
          files |-> write_to_file(fs, "research_plan.md", ArgOf(call))]
    ELSE IF call.name = COMPLETE_TASK
    THEN [result |-> Returned("done", <<"validate", call.name>>),
          files |-> write_to_file(fs, "report.md", ArgOf(call))]
    ELSE [result |-> Returned("done", <<"validate", call.name>>),
          files |-> write_to_file(fs, "sub_report.md", ArgOf(call))]

\* how the run of a nested agent ends: Agent.run returns (the loop completed
\* or used up its steps) or raises
NestedEnds == {"completed", "exhausted", "error"}

\* a faulty envelope that passes the completion of the nested agent on to
\* its parent; C39 must tell it from the code's
subagent_result_completing(r, how) ==
    IF how = "error"
    THEN [Raised("failed", r.stages) EXCEPT !.nested = how, !.args = r.args]
    ELSE [Returned(IF how = "completed" THEN "done" ELSE "ok", r.stages)
             EXCEPT !.nested = how, !.args = r.args]

\* ToolExecutor._execute_run_subagent once the nested run has ended
subagent_result(r, how) ==
    IF how = "error"
    THEN [Raised("failed", r.stages) EXCEPT !.nested = how, !.args = r.args]
    ELSE [Returned("ok", r.stages) EXCEPT !.nested = how, !.args = r.args]

\* the execution has returned or raised
Resolved(r) == r.status \in {"exc", "ok", "done"}

\* a faulty gather that raises the first exception of the batch; C12 must
\* tell it from the code's
gather_propagating(res) ==
    [returned |-> \A i \in 1..Len(res) : Resolved(res[i]),
     raised |-> \E i \in 1..Len(res) : res[i].status = "exc"]

\* a faulty gather that returns as soon as one execution has resolved; C19
\* must tell it from the code's
gather_first_completed(res) ==
    [returned |-> \E i \in 1..Len(res) : Resolved(res[i]), raised |-> FALSE]

\* asyncio.gather(*coros, return_exceptions=True): it returns when every
\* execution has resolved and never raises
gather(res) ==
    [returned |-> \A i \in 1..Len(res) : Resolved(res[i]), raised |-> FALSE]

\* a faulty pairing that appends the results in their order of completion;
\* C11 must tell it from the code's
append_position_by_completion(k, ord) == ord[k]

\* zip(tool_call_ids, tool_call_names, tool_results): the k-th append takes
\* the k-th call and the k-th result, whatever the order of completion ord
append_position(k, ord) == k

\* format_tool_result_for_llm of the envelope of result r, appended k-th
format_tool_result_for_llm(r, k) ==
    IF r.status = "exc" THEN "Tool execution failed: " \o Text(k)
    ELSE Text(k)

\* a faulty gate that reflects even when the batch completed the task; C13
\* must tell it from the code's
reflection_due_despite_completion(a, tool_name, completed, step) ==
    /\ a.enable_interleaved_thinking
    /\ ~(tool_name = SAVE_RESEARCH_PLAN \/ tool_name = COMPLETE_TASK
         \/ tool_name = COMPLETE_SUB_TASK)
    /\ step % 3 = 0

\* the reflection gate of agent.py:354-363, after the batch was appended
\* (tool_name is the name of the last call of the batch)
reflection_due(a, tool_name, completed, step) ==
    /\ a.enable_interleaved_thinking
    /\ ~(tool_name = SAVE_RESEARCH_PLAN \/ tool_name = COMPLETE_TASK
         \/ tool_name = COMPLETE_SUB_TASK)
    /\ ~completed
    /\ step % 3 = 0

\* the messages Agent._run_interleaved_thinking_step sends
reflection_messages(model_messages) ==
    Append(model_messages,
           BuildMsg(ASSISTANT, INTERLEAVED_THINKING_PROMPT, Absent, Absent, <<>>))

\* the disk accepts every write of memory.json during an agent's run
AgentIo == TRUE

\* the raw response of the step model call made at a step
Response(step) == "response of step " \o ToString(step)

\* a faulty assignment that keeps the first response it saw; C27 must tell
\* it from the code's
observe_response_first_only(prev, response) ==
    IF prev = NoResponse THEN response ELSE prev

\* last_response = response (agent.py:238)
observe_response(prev, response) == response

\* what _run_internal returns (agent.py:380-381)
run_result(lr) == IF lr = NoResponse THEN EmptyResult ELSE lr

\* the run ends: how
EndRun(how) ==
    /\ pc' = "done"
    /\ outcome' = how

\* Agent._start_memory, then the loop of _run_internal is entered
StartMemory ==
    /\ pc = "start"
    /\ LET r1 == add(Mem, SYSTEM, SystemPrompt, Absent, Absent, <<>>,
                     "system_prompt", clock + 1, TRUE, AgentIo)
           r2 == add(r1, USER, InitialUserMessage, Absent, Absent, <<>>,
                     "user_msg", clock + 2, TRUE, AgentIo)
       IN  IF agent.has_user THEN CommitMem(r2, 2) ELSE CommitMem(r1, 1)
    /\ pc' = "step"
    /\ UNCHANGED <<agent, subagents, gate, research, reflection, step_index, task_completed, completion_prompt_added,
                   batch, results, order, append_idx, calls_made, step_calls,
                   nudges, files, last_response, outcome>>

\* the top of one iteration of the step loop: the completion nudge of the
\* final allowed step (agent.py:205-232)
StepBegin ==
    /\ pc = "step"
    /\ step_index < agent.max_steps
    /\ LET nudge == /\ ~task_completed
                    /\ ~completion_prompt_added
                    /\ step_index = agent.max_steps - 1
                    /\ build_max_step_completion_prompt(agent.tools) # Absent
       IN  IF nudge
           THEN \E llm_ok \in LlmOutcomes(USER) :
                   /\ CommitMem(add(Mem, USER,
                                    build_max_step_completion_prompt(agent.tools),
                                    Absent, Absent, <<>>, "user_msg", clock + 1,
                                    llm_ok, AgentIo), 1)
                   /\ completion_prompt_added' = TRUE
                   /\ nudges' = nudges + 1
           ELSE UNCHANGED <<memvars, completion_prompt_added, nudges>>
    /\ pc' = "call"
    /\ reflection' = "none"
    /\ UNCHANGED <<agent, subagents, gate, research, step_index, task_completed, batch, results, order,
                   append_idx, calls_made, step_calls, files, last_response,
                   outcome>>

\* the step budget is used up: the loop ends without a completion signal
LoopExhausted ==
    /\ pc = "step"
    /\ step_index >= agent.max_steps
    /\ EndRun("exhausted")
    /\ reflection' = "none"
    /\ UNCHANGED <<memvars, agent, subagents, gate, research, step_index, task_completed,
                   completion_prompt_added, batch, results, order, append_idx,
                   calls_made, step_calls, nudges, files, last_response>>

\* the step's model call fails: LLMError leaves _run_internal and run
ModelCallFails ==
    /\ pc = "call"
    /\ step_calls' = step_calls + 1
    /\ EndRun("error")
    /\ UNCHANGED <<memvars, agent, subagents, gate, research, reflection, step_index, task_completed,
                   completion_prompt_added, batch, results, order, append_idx,
                   calls_made, nudges, files, last_response>>

\* a faulty test that leaves the loop after any step; C24 must tell it from
\* the code's
step_loop_breaks_after_any_step(completed) == TRUE

\* the test that ends a step without tool calls (agent.py:377-378): the loop
\* is left only on a completion signal
step_loop_breaks(completed) == completed

\* the step's model call answers without tool calls (agent.py:374-378)
ModelAnswersText ==
    /\ pc = "call"
    /\ \E llm_ok \in LlmOutcomes(ASSISTANT) :
          CommitMem(add(Mem, ASSISTANT, Text(clock + 1), Absent, Absent, <<>>,
                        "assistant_msg", clock + 1, llm_ok, AgentIo), 1)
    /\ step_calls' = step_calls + 1
    /\ last_response' = observe_response(last_response, Response(step_index))
    /\ IF step_loop_breaks(task_completed)
       THEN EndRun("completed") /\ UNCHANGED step_index
       ELSE /\ step_index' = step_index + 1
            /\ pc' = "step"
            /\ UNCHANGED outcome
    /\ UNCHANGED <<agent, subagents, gate, research, reflection, task_completed, completion_prompt_added, batch, results,
                   order, append_idx, calls_made, nudges, files>>

\* the step's model call answers with tool calls: the assistant message is
\* recorded and every call of the batch is scheduled (agent.py:249-301)
ModelAnswersToolCalls ==
    /\ pc = "call"
    /\ \E calls \in ModelBatches(RequestedNames(agent), calls_made, CallBudget(agent)) :
          /\ \E llm_ok \in LlmOutcomes(ASSISTANT) :
                CommitMem(add(Mem, ASSISTANT, Text(clock + 1), Absent, Absent, calls,
                              "assistant_tool_call", clock + 1, llm_ok, AgentIo), 1)
          /\ batch' = calls
          /\ results' = [i \in 1..Len(calls) |-> PendingResult]
          /\ calls_made' = calls_made + Len(calls)
    /\ order' = <<>>
    /\ step_calls' = step_calls + 1
    /\ last_response' = observe_response(last_response, Response(step_index))
    /\ append_idx' = 1
    /\ pc' = "tools"
    /\ UNCHANGED <<agent, subagents, gate, research, reflection, step_index, task_completed, completion_prompt_added,
                   nudges, files, outcome>>

\* the executions of the batch after one of them moved: the loop goes on to
\* append when gather returns
AfterExecution(res, i) ==
    /\ results' = res
    /\ order' = IF Resolved(res[i]) THEN Append(order, i) ELSE order
    /\ IF gather(res).raised
       THEN EndRun("error")
       ELSE /\ pc' = IF gather(res).returned THEN "append" ELSE "tools"
            /\ UNCHANGED outcome

\* one execution of the batch runs, in any order: it returns or raises, or it
\* starts a nested agent and awaits its run
ToolExecutes ==
    /\ pc = "tools"
    /\ \E i \in 1..Len(batch) :
          /\ results[i].status = "pending"
          /\ \E env \in ToolEnvs(batch[i].name) :
                LET x == execute_tool(agent.tools, batch[i], env, files)
                    r == [x.result EXCEPT !.args = args_read(x.result, env.args)]
                IN  /\ files' = x.files
                    /\ AfterExecution([results EXCEPT ![i] = r], i)
    /\ UNCHANGED <<memvars, agent, subagents, gate, research, reflection, step_index, task_completed,
                   completion_prompt_added, batch, append_idx, calls_made,
                   step_calls, nudges, last_response>>

\* the run of a nested agent ends and run_subagent returns its envelope, or
\* raises if the run raised (executor.py:177-196)
NestedRunEnds ==
    /\ pc = "tools"
    /\ \E i \in 1..Len(batch) :
          /\ results[i].status = "nested"
          /\ \E how \in NestedEnds :
                AfterExecution([results EXCEPT ![i] = subagent_result(results[i], how)], i)
    /\ UNCHANGED <<memvars, agent, subagents, gate, research, reflection, step_index, task_completed,
                   completion_prompt_added, batch, append_idx, calls_made,
                   step_calls, nudges, files, last_response>>

\* the next result of the batch is appended (agent.py:311-351)
AppendToolResult ==
    /\ pc = "append"
    /\ append_idx <= Len(batch)
    /\ LET j == append_position(append_idx, order)
       IN  /\ \E llm_ok \in LlmOutcomes(TOOL) :
                 CommitMem(add(Mem, TOOL,
                               format_tool_result_for_llm(results[j], clock + 1),
                               batch[j].id, Absent, <<>>, "tool_msg", clock + 1,
                               llm_ok, AgentIo), 1)
           /\ task_completed' = (task_completed \/ results[j].status = "done")
    /\ append_idx' = append_idx + 1
    /\ pc' = IF append_idx = Len(batch) THEN "after_tools" ELSE "append"
    /\ UNCHANGED <<agent, subagents, gate, research, reflection, step_index, completion_prompt_added, batch, results,
                   order, calls_made, step_calls, nudges, files, last_response,
                   outcome>>

\* the locals of the step that hold the batch (tool_calls, tool_results, the
\* zip position) are kept while the step uses them and dead afterwards
StepLocals(kept) ==
    IF kept THEN UNCHANGED <<batch, results, order, append_idx>>
    ELSE batch' = <<>> /\ results' = <<>> /\ order' = <<>> /\ append_idx' = 0

\* after the batch: reflect, or save and leave on completion, or go on to
\* the next step (agent.py:353-378)
AfterTools ==
    /\ pc = "after_tools"
    /\ IF reflection_due(agent, batch[Len(batch)].name, task_completed, step_index)
       THEN /\ pc' = "reflect"
            /\ UNCHANGED <<memvars, step_index, outcome>>
       ELSE IF task_completed
       THEN /\ saved' = save(history, saved, AgentIo).saved
            /\ EndRun("completed")
            /\ UNCHANGED <<history, messages, max_turns, keep_last_n_turns, autosave,
                           autosave_every, autosave_counter, clock, issued, orphan,
                           last, lock, step_index>>
       ELSE /\ pc' = "step"
            /\ step_index' = step_index + 1
            /\ UNCHANGED <<memvars, outcome>>
    /\ StepLocals(pc' = "reflect")
    /\ UNCHANGED <<agent, subagents, gate, research, reflection, task_completed, completion_prompt_added, calls_made,
                   step_calls, nudges, files, last_response>>

\* how the reflection call goes: generate_response raises, returns text that
\* is blank once stripped, or returns text
ReflectionOutcomes == {"raises", "blank", "text"}

\* a faulty step that stores whatever the call returned, blank or not; C26
\* must tell it from the code's
reflection_stored_unless_raised(how) == how # "raises"

\* Agent._run_interleaved_thinking_step stores the reflection only when the
\* call returned text that is not blank (agent.py:133-158)
reflection_stored(how) == how = "text"

\* Agent._run_interleaved_thinking_step, after which the step ends
Reflect ==
    /\ pc = "reflect"
    /\ \E how \in ReflectionOutcomes :
          /\ reflection' = how
          /\ IF reflection_stored(how)
             THEN \E llm_ok \in LlmOutcomes(ASSISTANT) :
                     CommitMem(add(Mem, ASSISTANT, ReflectionText(clock + 1), Absent,
                                   Absent, <<>>, "assistant_msg", clock + 1, llm_ok,
                                   AgentIo), 1)
             ELSE UNCHANGED memvars
    /\ pc' = "step"
    /\ step_index' = step_index + 1
    /\ StepLocals(FALSE)
    /\ UNCHANGED <<agent, subagents, gate, research, task_completed, completion_prompt_added, calls_made,
                   step_calls, nudges, files, last_response, outcome>>

\* an Agent as its constructor leaves it, about to run
InitAgent ==
    /\ EmptyMemory
    /\ max_turns = DefaultMaxTurns
    /\ keep_last_n_turns = DefaultKeepLastNTurns
    /\ autosave = TRUE
    /\ autosave_every = DefaultAutosaveEvery
    /\ agent \in AgentConfigs
    /\ pc = "start"
    /\ step_index = 0
    /\ task_completed = FALSE
    /\ completion_prompt_added = FALSE
    /\ batch = <<>>
    /\ results = <<>>
    /\ order = <<>>
    /\ append_idx = 0
    /\ calls_made = 0
    /\ step_calls = 0
    /\ nudges = 0
    /\ files = NoFiles
    /\ last_response = NoResponse
    /\ reflection = "none"
    /\ subagents = <<>>
    /\ gate = NoGate
    /\ research = NoResearch
    /\ outcome = "running"

NextAgent ==
    \/ StartMemory
    \/ StepBegin
    \/ LoopExhausted
    \/ ModelCallFails
    \/ ModelAnswersText
    \/ ModelAnswersToolCalls
    \/ ToolExecutes
    \/ NestedRunEnds
    \/ AppendToolResult
    \/ AfterTools
    \/ Reflect

SpecAgent == InitAgent /\ [][NextAgent]_vars

----------------------------------------------------------------------------
(* Nested agents: the runs that run_subagent starts, each on its own       *)
(* Memory, while the parent awaits the gather of its batch.                *)

\* steps a nested agent is allowed (Agent.max_steps of the nested Agent)
MaxSubagentSteps == 1

\* the prompt argument of the run_subagent call at position i of the batch
SubagentTask(i) == "task of call " \o ToString(i)

\* the text the model of the nested agent at position i answers with
SubagentText(i, k) == "sub-agent " \o ToString(i) \o ": " \o Text(k)

\* the completion call the model of the nested agent at position i makes
SubagentCall(i) == ToolCall("sub_call_" \o ToString(i), COMPLETE_SUB_TASK)

\* the run_subagent call the model of the nested agent at position i makes
SubagentNestCall(i) == ToolCall("sub_nest_" \o ToString(i), RUN_SUBAGENT)

\* the text of the tool message the nested agent at position i appends as
\* its k-th record for result r
SubagentToolText(i, r, k) ==
    "sub-agent " \o ToString(i) \o ": " \o format_tool_result_for_llm(r, k)

\* arguments that conform to the schema, met by a handler that works
WorkingEnv == [args |-> [missing |-> FALSE, declared |-> "string", kind |-> "string"],
               world |-> "works"]

\* a faulty executor call that hands the nested agent the tools of its
\* parent; C33 must tell it from the code's
subagent_tools_inherited(parent_tools) == parent_tools

\* the tools _execute_run_subagent gives the nested Agent
\* (executor.py:168-172), whatever the tools of the parent
subagent_tools(parent_tools) == {WEB_EXTRACT, WEB_SEARCH, COMPLETE_SUB_TASK}

\* the four fields of a memory state
MemOf(r) == [history |-> r.history, messages |-> r.messages,
             counter |-> r.counter, saved |-> r.saved]

\* a faulty constructor that hands the nested agent the memory of its
\* parent; C29 must tell it from the code's
subagent_memory_shared(parent_memory) == MemOf(parent_memory)

\* Agent.__init__ builds its own Memory (agent.py:66-71), whose lists are
\* made by default_factory (memory.py:58-61): nothing of the parent's
\* memory reaches it
subagent_memory(parent_memory) ==
    [history |-> <<>>, messages |-> <<>>, counter |-> 0, saved |-> <<>>]

\* the nested Agent as _execute_run_subagent constructs it
\* (executor.py:162-176), about to run
NewSubagent ==
    [mem |-> subagent_memory(Mem), tools |-> subagent_tools(agent.tools),
     pc |-> "start", step |-> 0, appends |-> 0, nudged |-> FALSE, spawned |-> 0,
     how |-> "running"]

\* the append of a nested agent: its Memory is built with the defaults the
\* parent's was built with, and reads the time as the parent's last append
\* plus its own appends
subagent_add(s, role, content, tcid, calls, kind) ==
    [s EXCEPT !.mem = MemOf(add(s.mem, role, content, tcid, Absent, calls, kind,
                                clock + s.appends + 1, TRUE, AgentIo)),
              !.appends = s.appends + 1]

\* how the step model call of a nested agent goes: it raises, answers with
\* text, or answers with one call, of its completion tool or of run_subagent
SubagentAnswers == {"fails", "text", "completes", "nests"}

\* the call the nested agent at position i has requested and not yet
\* executed
subagent_pending_call(s, i) ==
    IF s.pc = "nest" THEN SubagentNestCall(i) ELSE SubagentCall(i)

\* the execution of that call by the executor of the nested agent
subagent_execution(s, i) ==
    execute_tool(s.tools, subagent_pending_call(s, i), WorkingEnv, files)

\* run_subagent executes and starts its nested agent (executor.py:154-177)
SubagentStarts ==
    /\ pc = "tools"
    /\ \E i \in 1..Len(batch) :
          /\ results[i].status = "pending"
          /\ \E env \in ToolEnvs(batch[i].name) :
                LET x == execute_tool(agent.tools, batch[i], env, files)
                    r == [x.result EXCEPT !.args = args_read(x.result, env.args)]
                IN  /\ r.status = "nested"
                    /\ subagents' = [j \in DOMAIN subagents \cup {i} |->
                                        IF j = i THEN NewSubagent ELSE subagents[j]]
                    /\ files' = x.files
                    /\ AfterExecution([results EXCEPT ![i] = r], i)
    /\ UNCHANGED <<memvars, agent, gate, research, reflection, step_index, task_completed,
                   completion_prompt_added, batch, append_idx, calls_made,
                   step_calls, nudges, last_response>>

\* an execution of the batch that starts no nested agent
ToolExecutesInline ==
    /\ ToolExecutes
    /\ \A i \in 1..Len(batch) : results'[i].status # "nested"

\* the next move of the nested agent at position i: Agent._start_memory,
\* then the loop of _run_internal (agent.py:176-381)
subagent_move(s, i, answer) ==
    IF s.pc = "start"
    THEN [subagent_add(s, SYSTEM, SystemPrompt, Absent, <<>>, "system_prompt")
             EXCEPT !.pc = "user"]
    ELSE IF s.pc = "user"
    THEN [subagent_add(s, USER, SubagentTask(i), Absent, <<>>, "user_msg")
             EXCEPT !.pc = "step"]
    ELSE IF s.pc = "step"
    THEN IF s.step >= MaxSubagentSteps
         THEN [s EXCEPT !.pc = "done", !.how = "exhausted"]
         ELSE IF s.step = MaxSubagentSteps - 1 /\ ~s.nudged
         THEN [subagent_add(s, USER, build_max_step_completion_prompt(s.tools), Absent,
                            <<>>, "user_msg")
                  EXCEPT !.pc = "call", !.nudged = TRUE]
         ELSE [s EXCEPT !.pc = "call"]
    ELSE IF s.pc = "call"
    THEN IF answer = "fails" THEN [s EXCEPT !.pc = "done", !.how = "error"]
         ELSE IF answer = "text"
         THEN [subagent_add(s, ASSISTANT, SubagentText(i, s.appends + 1), Absent,
                            <<>>, "assistant_msg")
                  EXCEPT !.pc = "step", !.step = s.step + 1]
         ELSE IF answer = "completes"
         THEN [subagent_add(s, ASSISTANT, "", Absent, <<SubagentCall(i)>>,
                            "assistant_msg")
                  EXCEPT !.pc = "tool"]
         ELSE [subagent_add(s, ASSISTANT, "", Absent, <<SubagentNestCall(i)>>,
                            "assistant_msg")
                  EXCEPT !.pc = "nest"]
    ELSE LET r == subagent_execution(s, i).result
             fed == subagent_add(s, TOOL, SubagentToolText(i, r, s.appends + 1),
                                 subagent_pending_call(s, i).id, <<>>, "tool_msg")
         IN  IF r.status = "done"
             THEN [fed EXCEPT !.pc = "done", !.how = "completed"]
             ELSE [fed EXCEPT !.pc = "step", !.step = s.step + 1,
                              !.spawned = IF r.status = "nested" THEN s.spawned + 1
                                          ELSE s.spawned]

\* a nested agent that is running makes its next move; a call it requested
\* is executed (its completion call writes the sub-report) and the result
\* appended; a run_subagent call that its executor lets through starts an
\* agent below it, whose run is taken to return
SubagentMoves ==
    /\ pc = "tools"
    /\ \E i \in DOMAIN subagents :
          /\ subagents[i].pc # "done"
          /\ \E answer \in (IF subagents[i].pc = "call" THEN SubagentAnswers
                            ELSE {"text"}) :
                subagents' = [subagents EXCEPT ![i] = subagent_move(@, i, answer)]
          /\ files' = IF subagents[i].pc \in {"tool", "nest"}
                      THEN subagent_execution(subagents[i], i).files
                      ELSE files
    /\ UNCHANGED <<memvars, agent, gate, research, pc, reflection, step_index, task_completed,
                   completion_prompt_added, batch, results, order, append_idx,
                   calls_made, step_calls, nudges, last_response, outcome>>

\* the run of a nested agent has ended and run_subagent returns its
\* envelope, or raises if the run raised (executor.py:177-196)
SubagentReturns ==
    /\ pc = "tools"
    /\ \E i \in DOMAIN subagents :
          /\ results[i].status = "nested"
          /\ subagents[i].pc = "done"
          /\ AfterExecution([results EXCEPT ![i] =
                                subagent_result(results[i], subagents[i].how)], i)
    /\ UNCHANGED <<memvars, agent, subagents, gate, research, reflection, step_index, task_completed,
                   completion_prompt_added, batch, append_idx, calls_made,
                   step_calls, nudges, files, last_response>>

\* a lead agent allowed one step, about to run
InitNested ==
    /\ InitAgent
    /\ agent = AgentConfig(TRUE, LeadTools, 1, FALSE)

NextNested ==
    \/ StartMemory
    \/ StepBegin
    \/ LoopExhausted
    \/ ModelCallFails
    \/ ModelAnswersText
    \/ ModelAnswersToolCalls
    \/ ToolExecutesInline
    \/ SubagentStarts
    \/ SubagentMoves
    \/ SubagentReturns
    \/ AppendToolResult
    \/ AfterTools

SpecNested == InitNested /\ [][NextNested]_vars


----------------------------------------------------------------------------
(* The orchestration (deep_research/research.py): the lead agent runs,     *)
(* then the citation agent if the session has a report.                    *)

\* max_steps of the lead agent (50 in research.py:26)
MaxLeadSteps == 1
\* max_steps of the citation agent (10 in research.py:42)
MaxCitationSteps == 1

\* the lead agent start_deep_research constructs (research.py:16-27)
LeadAgent == AgentConfig(TRUE, LeadTools, MaxLeadSteps, FALSE)

\* the citation agent it constructs (research.py:36-44)
CitationAgent == AgentConfig(TRUE, {COMPLETE_TASK}, MaxCitationSteps, FALSE)

\* load_citation_context finds the report of the session: the executor
\* writes under output/ of the working directory and the loader reads under
\* output/ of the project, so it sees the files that were written only when
\* the two are one directory; it raises FileNotFoundError otherwise, and
\* when the session has no report.md
load_citation_context(fs, project_cwd) ==
    project_cwd /\ fs["report.md"] # Absent

\* start_deep_research was called and awaits the run of its lead agent
ResearchStarted ==
    [pc |-> "lead", lead |-> "running", lead_report |-> FALSE,
     found |-> FALSE, citation_runs |-> 0]

\* the Agent and its Memory as the constructor leaves them, for agent a
FreshAgent(a) ==
    /\ agent' = a
    /\ history' = <<>>
    /\ messages' = <<>>
    /\ autosave_counter' = 0
    /\ saved' = <<>>
    /\ issued' = {}
    /\ orphan' = FALSE
    /\ lock' = [holder |-> <<>>, waiters |-> <<>>]
    /\ last' = [last EXCEPT !.op = "init"]
    /\ pc' = "start"
    /\ step_index' = 0
    /\ task_completed' = FALSE
    /\ completion_prompt_added' = FALSE
    /\ batch' = <<>>
    /\ results' = <<>>
    /\ order' = <<>>
    /\ append_idx' = 0
    /\ calls_made' = 0
    /\ step_calls' = 0
    /\ nudges' = 0
    /\ last_response' = NoResponse
    /\ reflection' = "none"
    /\ outcome' = "running"
    /\ UNCHANGED <<max_turns, keep_last_n_turns, autosave, autosave_every, clock,
                   files, subagents, gate>>

\* the run of the lead agent returned (Completed or Exhausted): the report
\* of the session is loaded; when it is found the citation agent is
\* constructed and its run starts, otherwise the session id is returned
\* (research.py:28-45)
LeadRunReturns ==
    /\ research.pc = "lead"
    /\ pc = "done"
    /\ outcome \in {"completed", "exhausted"}
    /\ \E project_cwd \in BOOLEAN :
          LET found == load_citation_context(files, project_cwd)
              seen  == [research EXCEPT !.lead = outcome,
                                        !.lead_report = files["report.md"] # Absent,
                                        !.found = found]
          IN  IF found
              THEN /\ research' = [seen EXCEPT !.pc = "citation",
                                               !.citation_runs = @ + 1]
                   /\ FreshAgent(CitationAgent)
              ELSE /\ research' = [seen EXCEPT !.pc = "returned"]
                   /\ UNCHANGED <<memvars, agent, pc, step_index, task_completed,
                                  completion_prompt_added, batch, results, order,
                                  append_idx, calls_made, step_calls, nudges, files,
                                  last_response, reflection, subagents, gate,
                                  outcome>>

\* the run of the lead agent raised: the exception leaves
\* start_deep_research, which has no handler around the await
\* (research.py:28)
LeadRunRaises ==
    /\ research.pc = "lead"
    /\ pc = "done"
    /\ outcome = "error"
    /\ research' = [research EXCEPT !.pc = "raised", !.lead = outcome,
                                    !.lead_report = files["report.md"] # Absent]
    /\ UNCHANGED <<memvars, agent, pc, step_index, task_completed,
                   completion_prompt_added, batch, results, order, append_idx,
                   calls_made, step_calls, nudges, files, last_response, reflection,
                   subagents, gate, outcome>>

\* the run of the citation agent ended: the session id is returned, or the
\* exception of the run leaves start_deep_research (research.py:45-46)
CitationRunEnds ==
    /\ research.pc = "citation"
    /\ pc = "done"
    /\ research' = [research EXCEPT
                       !.pc = IF outcome = "error" THEN "raised" ELSE "returned"]
    /\ UNCHANGED <<memvars, agent, pc, step_index, task_completed,
                   completion_prompt_added, batch, results, order, append_idx,
                   calls_made, step_calls, nudges, files, last_response, reflection,
                   subagents, gate, outcome>>

InitResearch ==
    /\ EmptyMemory
    /\ max_turns = DefaultMaxTurns
    /\ keep_last_n_turns = DefaultKeepLastNTurns
    /\ autosave = TRUE
    /\ autosave_every = DefaultAutosaveEvery
    /\ agent = LeadAgent
    /\ pc = "start"
    /\ step_index = 0
    /\ task_completed = FALSE
    /\ completion_prompt_added = FALSE
    /\ batch = <<>>
    /\ results = <<>>
    /\ order = <<>>
    /\ append_idx = 0
    /\ calls_made = 0
    /\ step_calls = 0
    /\ nudges = 0
    /\ files = NoFiles
    /\ last_response = NoResponse
    /\ reflection = "none"
    /\ subagents = <<>>
    /\ gate = NoGate
    /\ research = ResearchStarted
    /\ outcome = "running"

NextResearch ==
    \/ StartMemory
    \/ StepBegin
    \/ LoopExhausted
    \/ ModelCallFails
    \/ ModelAnswersText
    \/ ModelAnswersToolCalls
    \/ ToolExecutes
    \/ NestedRunEnds
    \/ AppendToolResult
    \/ AfterTools
    \/ LeadRunReturns
    \/ LeadRunRaises
    \/ CitationRunEnds

SpecResearch == InitResearch /\ [][NextResearch]_vars

----------------------------------------------------------------------------
(* The rate-limit gate of LLMService (deep_research/services/llm_service.py) *)
(* under requests issued through one instance, concurrently.               *)

\* requests issued through the instance
MaxRequests == 3

\* the largest rate_limit_delay, in ticks of the clock
MaxDelay == 2

\* ticks of the clock after the instance was constructed
MaxTicks == 4

\* what time.time() reads when the instance is constructed: far more than
\* any delay after the 0.0 that last_request_time starts from
Epoch == MaxDelay + 1

\* who issues a request: the step loop (generate_response_with_tools), the
\* reflection step and the summarizer of Memory (generate_response)
RequestKinds == {"step", "reflection", "summarizer"}

\* LLMService.__init__ (llm_service.py:58-63) with rate_limit_delay = d,
\* and the requests to come
NewGate(d) ==
    [built |-> TRUE, rate_limit_delay |-> d, last_request_time |-> 0,
     lock_created |-> FALSE, holder |-> 0, waiters |-> <<>>, now |-> Epoch,
     reqs |-> [i \in 1..MaxRequests |->
                  [pc |-> "idle", kind |-> "none", wake |-> 0, waited |-> FALSE]],
     passes |-> <<>>]

\* a faulty lock that admits every caller at once; C30 must tell it from
\* the code's
lock_free_always(g) == TRUE

\* asyncio.Lock.acquire takes the lock without waiting when it is not held
\* and nobody waits for it
lock_free(g) == g.holder = 0 /\ g.waiters = <<>>

\* self.last_request_time = time.time(), the lock is released and the
\* request goes on to acompletion (llm_service.py:82)
pass_gate(g, i) ==
    [g EXCEPT !.last_request_time = g.now,
              !.holder = 0,
              !.reqs[i].pc = "request",
              !.passes = Append(@, [req |-> i, kind |-> g.reqs[i].kind, at |-> g.now,
                                    waited |-> g.reqs[i].waited,
                                    slept |-> g.reqs[i].pc = "sleeping"])]

\* the body under the lock up to its await (llm_service.py:76-80): the
\* request sleeps for what is left of the delay, or passes at once
enter_gate(g, i) ==
    LET time_since_last == g.now - g.last_request_time
    IN  IF time_since_last < g.rate_limit_delay
        THEN [g EXCEPT !.holder = i,
                       !.reqs[i].pc = "sleeping",
                       !.reqs[i].wake = g.now + (g.rate_limit_delay - time_since_last)]
        ELSE pass_gate(g, i)

\* LLMService._apply_rate_limiting up to its first await
\* (llm_service.py:66-75)
apply_rate_limiting(g, i, kind) ==
    LET g1 == [g EXCEPT !.reqs[i].kind = kind]
        g2 == [g1 EXCEPT !.lock_created = TRUE]
    IN  IF g.rate_limit_delay <= 0 THEN pass_gate(g1, i)
        ELSE IF lock_free(g2) THEN enter_gate(g2, i)
        ELSE [g2 EXCEPT !.waiters = Append(@, i),
                        !.reqs[i].pc = "waiting",
                        !.reqs[i].waited = TRUE]

\* what the gate leaves alone
gate_unchanged ==
    UNCHANGED <<memvars, agent, pc, step_index, task_completed,
                completion_prompt_added, batch, results, order, append_idx,
                calls_made, step_calls, nudges, files, last_response, reflection,
                subagents, research, outcome>>

\* the instance is constructed
GateConstruct ==
    /\ ~gate.built
    /\ \E d \in 0..MaxDelay : gate' = NewGate(d)
    /\ gate_unchanged

\* the next request is issued: generate_response or
\* generate_response_with_tools awaits _apply_rate_limiting
GateCall ==
    /\ gate.built
    /\ \E i \in 1..MaxRequests, kind \in RequestKinds :
          /\ gate.reqs[i].pc = "idle"
          /\ \A j \in 1..(i - 1) : gate.reqs[j].pc # "idle"
          /\ gate' = apply_rate_limiting(gate, i, kind)
    /\ gate_unchanged

\* the lock was released and its first waiter takes it
GateAcquire ==
    /\ gate.built
    /\ gate.holder = 0
    /\ gate.waiters # <<>>
    /\ gate' = enter_gate([gate EXCEPT !.waiters = Tail(@)], Head(gate.waiters))
    /\ gate_unchanged

\* asyncio.sleep returns, not before the time it was asked for
GateWake ==
    /\ gate.built
    /\ \E i \in 1..MaxRequests :
          /\ gate.reqs[i].pc = "sleeping"
          /\ gate.now >= gate.reqs[i].wake
          /\ gate' = pass_gate(gate, i)
    /\ gate_unchanged

\* acompletion returns or raises
GateRespond ==
    /\ gate.built
    /\ \E i \in 1..MaxRequests :
          /\ gate.reqs[i].pc = "request"
          /\ gate' = [gate EXCEPT !.reqs[i].pc = "done"]
    /\ gate_unchanged

\* time passes
GateTick ==
    /\ gate.built
    /\ gate.now < Epoch + MaxTicks
    /\ gate' = [gate EXCEPT !.now = gate.now + 1]
    /\ gate_unchanged

\* an LLMService about to be constructed, beside a memory nobody appends to
InitGate ==
    /\ EmptyMemory
    /\ NoAgent
    /\ max_turns = DefaultMaxTurns
    /\ keep_last_n_turns = DefaultKeepLastNTurns
    /\ autosave = FALSE
    /\ autosave_every = DefaultAutosaveEvery

NextGate ==
    \/ GateConstruct
    \/ GateCall
    \/ GateAcquire
    \/ GateWake
    \/ GateRespond
    \/ GateTick

SpecGate == InitGate /\ [][NextGate]_vars

----------------------------------------------------------------------------
(* Vocabulary of the properties.                                           *)

\* the ids listed in the tool_calls of a message
CallIdsOf(msg) == {msg.tool_calls[k].id : k \in 1..Len(msg.tool_calls)}

\* the tool message at position i of msgs has an earlier assistant message
\* listing its id
HasEarlierCall(msgs, i) ==
    \E j \in 1..(i - 1) :
        msgs[j].role = ASSISTANT /\ msgs[i].tool_call_id \in CallIdsOf(msgs[j])

\* no tool message of msgs is dangling
NoDanglingTool(msgs) ==
    \A i \in 1..Len(msgs) : msgs[i].role = TOOL => HasEarlierCall(msgs, i)

\* some record of h has this role
HasRole(h, role) == \E i \in 1..Len(h) : h[i].msg.role = role

\* the position of the first record of h with this role
FirstIndexOf(h, role) ==
    CHOOSE i \in 1..Len(h) :
        h[i].msg.role = role /\ \A j \in 1..(i - 1) : h[j].msg.role # role

\* the memory was seeded: its first two appends were a system then a user message
Seeded(h) ==
    /\ Len(h) >= 2
    /\ h[1].msg.role = SYSTEM /\ h[1].meta.when = 1
    /\ h[2].msg.role = USER /\ h[2].meta.when = 2

\* the non-synthetic assistant records of h, in order
RECURSIVE RealAssistants(_)
RealAssistants(h) ==
    IF h = <<>> THEN <<>>
    ELSE IF Head(h).msg.role = ASSISTANT /\ ~Head(h).meta.synthetic
         THEN <<Head(h)>> \o RealAssistants(Tail(h))
         ELSE RealAssistants(Tail(h))

\* the last n elements of a sequence
LastN(s, n) == SubSeq(s, Len(s) - n + 1, Len(s))

\* the records of h from its n-th most recent real assistant record onward,
\* found by scanning h from its end
RECURSIVE TailFromNthRecent(_, _)
TailFromNthRecent(h, n) ==
    IF h = <<>> \/ n = 0 THEN <<>>
    ELSE LET lastRec == h[Len(h)]
             front == SubSeq(h, 1, Len(h) - 1)
             isReal == lastRec.msg.role = ASSISTANT /\ ~lastRec.meta.synthetic
         IN  TailFromNthRecent(front, IF isReal THEN n - 1 ELSE n) \o <<lastRec>>

\* the history an append works on: the old history and the appended record
Appended == Append(history, last'.rec)

\* this step is an append that rewrote history
IsRewrite == last'.op = "add" /\ last'.summarizer # "none" /\ ~last'.raised

\* the synthetic record a rewrite under way must have produced
IsSynthetic(rec) == rec.msg.role = ASSISTANT /\ rec.meta.synthetic

----------------------------------------------------------------------------
(* Properties of the memory.                                               *)

\* C1: whenever every tool message was appended after an assistant message
\* listing its id, the model view holds no tool message without an earlier
\* assistant message of the view that lists its id.
C1_NoDanglingToolInView == ~orphan => NoDanglingTool(get_model_messages)

\* C3: the first system record and the first user record of history are never
\* removed or changed by a step, in history and in the model view.
C3_FirstSystemAndUserKept ==
    [][\A role \in {SYSTEM, USER} :
          HasRole(history, role) =>
             /\ HasRole(history', role)
             /\ history'[FirstIndexOf(history', role)]
                   = history[FirstIndexOf(history, role)]
             /\ FirstIndexOf(history', role) <= Len(messages')
             /\ messages'[FirstIndexOf(history', role)]
                   = sanitize_for_model(history[FirstIndexOf(history, role)].msg)]_vars

\* C4: a rewrite leaves exactly the original system record, the original first
\* user record, one new synthetic assistant record, then the records from the
\* boundary onward, unchanged, in order and none of them twice.
C4_RewriteShape ==
    [][IsRewrite =>
          LET h1 == Appended
              b == last'.boundary
          IN  /\ HasRole(h1, SYSTEM) /\ HasRole(h1, USER)
              /\ Len(history') = 3 + (Len(h1) - b)
              /\ history'[1] = h1[FirstIndexOf(h1, SYSTEM)]
              /\ history'[2] = h1[FirstIndexOf(h1, USER)]
              /\ IsSynthetic(history'[3])
              /\ SubSeq(history', 4, Len(history')) = SubSeq(h1, b + 1, Len(h1))
              /\ \A i \in (b + 1)..Len(h1) :
                    Cardinality({j \in 1..Len(history') : history'[j] = h1[i]}) = 1]_vars

C6_NoSummaryAtOrUnderMaxTurns ==
    [][(last'.op = "add" /\ count_user_turns(Appended) <= max_turns)
       => /\ last'.summarizer = "none"
          /\ ~last'.raised
          /\ history' = Append(history, last'.rec)
          /\ get_model_messages'
                = Append(messages, sanitize_for_model(last'.rec.msg))]_vars

\* C6 witness: an assistant append under the threshold, after other records.
C6_Witness ==
    /\ last.op = "add" /\ last.summarizer = "none"
    /\ last.rec.msg.role = ASSISTANT
    /\ count_user_turns(history) = max_turns
    /\ Len(history) >= 3

\* the summary record a rewrite with a failed curator call leaves at index 2
IsFallbackSummary(rec) ==
    /\ IsSynthetic(rec)
    /\ rec.msg.content = WrapSummary(rec.meta.when, FallbackText)

\* C7: an append whose curator call raised still returns normally, and history
\* holds the synthetic record with the fallback text at index 2.
C7_CuratorFailureDegrades ==
    (last.op = "add" /\ last.summarizer = "failed")
       => /\ ~last.raised
          /\ Len(history) >= 3
          /\ IsFallbackSummary(history[3])

\* C8: no append raises, whatever the order of roles and the thresholds.
C8_AppendNeverRaises == last.op = "add" => ~last.raised

\* C9: the model view has the length and order of history, and its i-th
\* message is the i-th record's message reduced to the model-facing fields.
C9_ViewMirrorsHistory ==
    /\ Len(get_model_messages) = Len(history)
    /\ \A i \in 1..Len(history) :
          /\ get_model_messages[i].role = history[i].msg.role
          /\ get_model_messages[i].content = history[i].msg.content
          /\ get_model_messages[i].tool_call_id = history[i].msg.tool_call_id
          /\ get_model_messages[i].name = history[i].msg.name
          /\ get_model_messages[i].tool_calls = history[i].msg.tool_calls
          /\ DOMAIN get_model_messages[i]
                = {"role", "content", "tool_call_id", "name", "tool_calls"}

\* C9 witness: after a rewrite that kept records behind the summary.
C9_Witness ==
    /\ last.op = "add" /\ last.summarizer # "none" /\ ~last.raised
    /\ Len(history) > 4
    /\ \E i \in 4..Len(history) : history[i].msg.role = TOOL

----------------------------------------------------------------------------
(* Properties of the agent loop.                                           *)

\* the assistant message at position i of msgs is followed, before the next
\* assistant message, by exactly one tool message per id it lists
HasResultsForCalls(msgs, i) ==
    LET later == {j \in (i + 1)..Len(msgs) : msgs[j].role = ASSISTANT}
        stop == IF later = {} THEN Len(msgs) + 1
                ELSE CHOOSE j \in later : \A k \in later : j <= k
    IN  \A id \in CallIdsOf(msgs[i]) :
            Cardinality({j \in (i + 1)..(stop - 1) :
                            msgs[j].role = TOOL /\ msgs[j].tool_call_id = id}) = 1

\* msgs pairs tool calls and tool results in both directions
PairingComplete(msgs) ==
    /\ NoDanglingTool(msgs)
    /\ \A i \in 1..Len(msgs) :
          msgs[i].role = ASSISTANT => HasResultsForCalls(msgs, i)

\* C2: whenever the agent loop is about to send the model view to the model,
\* for a step's model call or for a reflection call, every tool message of the
\* view has an earlier assistant message listing its id and every assistant
\* message with tool_calls is followed, before the next assistant message, by
\* one tool message per listed id.
C2_ViewPairingCompleteAtModelCalls ==
    pc \in {"call", "reflect"} => PairingComplete(get_model_messages)

\* the position in history of the assistant record that opened the batch,
\* when done results of the batch have been appended after it
BatchStart(done) == Len(history) - done

\* the results of the batch appended so far
AppendedResults == append_idx - 1

\* C11: while and after the results of a batch are appended, history ends
\* with the assistant record carrying the batch's tool_calls followed by one
\* tool record per call appended so far, with that call's id, in call order,
\* and no other tool record of history carries one of these ids.
C11_ToolResultsInCallOrder ==
    pc \in {"append", "after_tools"} =>
       /\ BatchStart(AppendedResults) >= 1
       /\ history[BatchStart(AppendedResults)].msg.role = ASSISTANT
       /\ history[BatchStart(AppendedResults)].msg.tool_calls = batch
       /\ \A k \in 1..AppendedResults :
             /\ history[BatchStart(AppendedResults) + k].msg.role = TOOL
             /\ history[BatchStart(AppendedResults) + k].msg.tool_call_id = batch[k].id
             /\ Cardinality({j \in 1..Len(history) :
                                /\ history[j].msg.role = TOOL
                                /\ history[j].msg.tool_call_id = batch[k].id}) = 1
       /\ (pc = "after_tools" => AppendedResults = Len(batch))

\* C11 witness: a batch of two whose second call resolved first, one of them
\* by raising, has been appended.
C11_Witness ==
    /\ pc = "after_tools"
    /\ Len(batch) = 2
    /\ order = <<2, 1>>
    /\ \E i \in 1..2 : results[i].status = "exc"
    /\ \E i \in 1..2 : results[i].status = "ok"

\* the tool record of the k-th call of the batch, once the batch is appended
ToolRecordOf(k) == history[BatchStart(Len(batch)) + k]

\* the content of a failure envelope formatted for the model
IsFailureText(content, when) == content = "Tool execution failed: " \o Text(when)

\* C12: a call that raises never ends the run and never keeps a sibling from
\* executing: once the batch is appended every call has resolved, a call that
\* raised is recorded as a failure envelope and every other call as its own
\* result, and a sibling that returned ran its handler and left its file.
C12_FailureSparesSiblings ==
    /\ (outcome = "error" => batch = <<>>)
    /\ pc = "after_tools" =>
          \A k \in 1..Len(batch) :
             /\ Resolved(results[k])
             /\ ToolRecordOf(k).msg.tool_call_id = batch[k].id
             /\ (results[k].status = "exc")
                   = IsFailureText(ToolRecordOf(k).msg.content, ToolRecordOf(k).meta.when)
             /\ results[k].status # "exc" =>
                   /\ results[k].stages = <<"validate", batch[k].name>>
                   /\ batch[k].name = SAVE_RESEARCH_PLAN =>
                         files["research_plan.md"]
                            \in {ArgOf(batch[j]) : j \in 1..Len(batch)}
                   /\ batch[k].name = COMPLETE_TASK =>
                         files["report.md"] \in {ArgOf(batch[j]) : j \in 1..Len(batch)}

\* C12 witness: a batch whose first call raised, before its sibling ran and
\* wrote the research plan, has been appended.
C12_Witness ==
    /\ pc = "after_tools"
    /\ Len(batch) = 2
    /\ order = <<1, 2>>
    /\ results[1].status = "exc"
    /\ results[2].status = "ok"
    /\ batch[2].name = SAVE_RESEARCH_PLAN
    /\ files["research_plan.md"] = ArgOf(batch[2])

EndsWithNudge(msgs, a) ==
    /\ Len(msgs) >= 1
    /\ msgs[Len(msgs)].role = USER
    /\ msgs[Len(msgs)].content =
          (IF COMPLETE_TASK \in a.tools
           THEN "max steps reached: call complete_task"
           ELSE "max steps reached: call complete_sub_task")

\* the nudge property on the agents that satisfy nudged: never two nudges,
\* none before the final allowed step, exactly one in memory (the last
\* message, in the wording of the agent's completion tool) when the model
\* call of the final allowed step is issued, and a run of max_steps = 1 that
\* ends Exhausted made one step model call after one nudge
NudgeOnFinalStep(nudged) ==
    /\ nudges <= 1
    /\ (nudged /\ pc = "call" /\ step_index < agent.max_steps - 1) => nudges = 0
    /\ (nudged /\ pc = "call" /\ step_index = agent.max_steps - 1 /\ ~task_completed)
          => /\ nudges = 1
             /\ EndsWithNudge(get_model_messages, agent)
             /\ step_calls = step_index
    /\ (nudged /\ agent.max_steps = 1 /\ outcome = "exhausted")
          => step_calls = 1 /\ nudges = 1

C15_RunEndsCompletedOrExhausted ==
    /\ (~ENABLED NextAgent) => outcome \in {"completed", "exhausted"}
    /\ step_calls <= agent.max_steps
    /\ (outcome = "exhausted")
          = (pc = "done" /\ step_index = agent.max_steps /\ ~task_completed)

C17_DisallowedToolHasNoEffect ==
    [][\A i \in 1..Len(batch) :
          (/\ pc = "tools"
           /\ batch[i].name \notin agent.tools
           /\ results[i].status = "pending"
           /\ results'[i].status # "pending")
          => /\ results'[i] = Raised("not_allowed", <<>>)
             /\ files' = files]_vars

\* C17 witness: the lead agent's batch held a web_search call, which is not
\* on its allow-list, next to a call that returned.
C17_Witness ==
    /\ pc = "after_tools"
    /\ agent.tools = LeadTools
    /\ \E i \in 1..Len(batch) :
          batch[i].name = WEB_SEARCH /\ results[i].error = "not_allowed"
    /\ \E i \in 1..Len(batch) : results[i].status = "ok"

\* C18: no error raised inside the step loop ends the run: a run never ends
\* otherwise than Completed or Exhausted.
C18_ErrorsNeverStopTheRun == outcome # "error"

\* C19: no tool result is appended and no model or reflection call is issued
\* while an execution of the batch is unresolved or a nested run is still
\* running, and a run_subagent envelope is returned only for a nested run
\* that ended Completed or Exhausted.
C19_BatchResolvesBeforeFeedback ==
    /\ [](pc \in {"append", "after_tools", "reflect"} =>
             \A i \in 1..Len(batch) :
                /\ Resolved(results[i])
                /\ results[i].nested # "running"
                /\ (batch[i].name = RUN_SUBAGENT /\ results[i].status = "ok")
                      => results[i].nested \in {"completed", "exhausted"})
    /\ [][(step_calls' # step_calls \/ clock' # clock) =>
             \A i \in 1..Len(results) : Resolved(results[i])]_vars

\* C19 witness: the results of a batch are being appended whose nested run
\* used up its steps after its sibling had already resolved.
C19_Witness ==
    /\ pc = "append"
    /\ Len(batch) = 2
    /\ \E i \in 1..2 :
          /\ batch[i].name = RUN_SUBAGENT
          /\ results[i].nested = "exhausted"
          /\ order[2] = i

----------------------------------------------------------------------------
(* Properties of concurrent appends.                                       *)

\* this step is the second lock section of an append, run to its end
IsConcRewrite == last'.op = "rewrite" /\ ~last'.raised

\* C20: concurrent appends behave as serialized operations: on a seeded
\* memory every rewrite uses the boundary the summarization decision gives
\* on the history it is applied to, and leaves after the synthetic record
\* exactly the records from the keep_last_n_turns-th most recent real
\* assistant turn on, so no record is lost outside a summary.
C20_ConcurrentAppendsSerialized ==
    [][(IsConcRewrite /\ Seeded(history)) =>
          LET d == summarize_decision(history, max_turns, keep_last_n_turns)
          IN  /\ d.need
              /\ last'.boundary = d.boundary
              /\ SubSeq(history', 4, Len(history'))
                    = TailFromNthRecent(history, keep_last_n_turns)]_vars

----------------------------------------------------------------------------
(* Properties of the summarization decision and of the summarizer input.   *)

\* the boundary Memory._summarize_decision_locked computes on h before its
\* guard (memory.py:253-257), -1 when none is computed
ComputedBoundary(h) ==
    IF keep_last_n_turns = 0 THEN Len(h)
    ELSE IF count_user_turns(h) >= keep_last_n_turns
         THEN KthFromEnd(assistant_turn_starts(h), keep_last_n_turns)
         ELSE -1

\* C21: an append is a round without summarization (no summarizer call,
\* history only extended by the record) whenever fewer real turns exist than
\* keep_last_n_turns, or the turn budget is exceeded and the computed
\* boundary is at or before the second record (0-based index 1).
C21_SeedConsumingSummarizationSkipped ==
    [][(/\ last'.op = "add"
        /\ \/ count_user_turns(Appended) < keep_last_n_turns
           \/ /\ count_user_turns(Appended) > max_turns
              /\ ComputedBoundary(Appended) \in 0..1)
       => /\ last'.summarizer = "none"
          /\ history' = Appended]_vars

\* the positions of the assistant and tool records among the first b of h
SummarizableBefore(h, b) ==
    {i \in 1..b : i <= Len(h) /\ h[i].msg.role \in {ASSISTANT, TOOL}}

\* request is the assistant and tool messages of the first b records of h,
\* each once and in order, reduced to the model-facing fields
IsPrefixInput(request, h, b) ==
    /\ Len(request) = Cardinality(SummarizableBefore(h, b))
    /\ \A i \in SummarizableBefore(h, b) :
          request[Cardinality(SummarizableBefore(h, i))] = sanitize_for_model(h[i].msg)
    /\ \A k \in 1..Len(request) : request[k].role \in {ASSISTANT, TOOL}

\* C22: the input of a summarizer call is the assistant and tool messages of
\* the records strictly before the boundary, each once and in history order,
\* reduced to the model-facing fields: no system or user message and no
\* record at or after the boundary is part of it.
C22_SummarizerInputIsPrefix ==
    [][(last'.op = "add" /\ last'.summarizer # "none")
       => IsPrefixInput(last'.request, Appended, last'.boundary)]_vars

\* C22 witness: a summarizer call whose input holds an assistant and a tool
\* message, with a system or user record before the boundary left out and
\* records from the boundary on kept in history.
C22_Witness ==
    /\ last.op = "add" /\ last.summarizer # "none" /\ ~last.raised
    /\ \E i, j \in 1..Len(last.request) :
          last.request[i].role = ASSISTANT /\ last.request[j].role = TOOL
    /\ Len(last.request) < last.boundary
    /\ Len(history) > 3

\* the positions of the synthetic records of h
SyntheticAt(h) == {i \in 1..Len(h) : h[i].meta.synthetic}

\* C23: a summarization of a history that holds a synthetic summary record
\* finds that record before the boundary, passes its message to the
\* summarizer, and leaves the new synthetic record as the only synthetic
\* one; and a synthetic record is never counted as a turn: an append after
\* which the non-synthetic assistant records are at most max_turns does not
\* summarize.
C23_SummaryAbsorbedByLaterSummary ==
    [][last'.op = "add"
       => /\ (last'.summarizer # "none" /\ ~last'.raised)
                => /\ \A i \in SyntheticAt(Appended) :
                         /\ i <= last'.boundary
                         /\ \E k \in 1..Len(last'.request) :
                               last'.request[k] = sanitize_for_model(Appended[i].msg)
                   /\ SyntheticAt(history') = {3}
                   /\ history'[3].meta.when = clock'
          /\ (SyntheticAt(Appended) # {} /\ Len(RealAssistants(Appended)) <= max_turns)
                => last'.summarizer = "none"]_vars

\* C23 witness: a summarization has just run whose input held the summary
\* of an earlier one, and it kept records behind the new summary.
C23_Witness ==
    /\ last.op = "add" /\ last.summarizer # "none" /\ ~last.raised
    /\ \E k \in 1..Len(last.request), t \in 1..(clock - 1) :
          last.request[k].content \in {WrapSummary(t, CuratorText),
                                       WrapSummary(t, FallbackText)}
    /\ Len(last.request) > 1
    /\ Len(history) > 3

----------------------------------------------------------------------------
(* More properties of the agent loop.                                      *)

\* this step is the model answering without tool calls
IsTextAnswer == pc = "call" /\ step_calls' = step_calls + 1 /\ batch' = <<>>
                  /\ outcome' # "error"

\* C24: a model response without tool calls appends exactly one assistant
\* message without tool calls, which ends history and the view, and the loop
\* goes on to the next step with no completion signal set; and a run in
\* which the model never asked for a tool ends only when max_steps steps
\* have run, as Exhausted (or when a model call raised).
C24_TextAnswerContinues ==
    /\ [][IsTextAnswer
           => /\ clock' = clock + 1
              /\ last'.rec.msg.role = ASSISTANT
              /\ last'.rec.msg.tool_calls = <<>>
              /\ last'.rec.meta.kind = "assistant_msg"
              /\ history'[Len(history')] = last'.rec
              /\ get_model_messages'[Len(messages')] = sanitize_for_model(last'.rec.msg)
              /\ pc' = "step"
              /\ step_index' = step_index + 1
              /\ task_completed' = task_completed
              /\ outcome' = "running"]_vars
    /\ []((pc = "done" /\ calls_made = 0)
            => /\ outcome \in {"exhausted", "error"}
               /\ ~task_completed
               /\ outcome = "exhausted"
                     => step_index = agent.max_steps /\ step_calls = agent.max_steps)

\* C24 witness: a run of MaxSteps steps has ended Exhausted on text answers
\* alone, the last of which made Memory summarize.
C24_Witness ==
    /\ pc = "done" /\ outcome = "exhausted"
    /\ calls_made = 0
    /\ step_calls = MaxSteps
    /\ \E i \in 1..Len(history) : history[i].meta.synthetic

\* the tools after which the loop is not meant to reflect
ReportTools == {SAVE_RESEARCH_PLAN, COMPLETE_TASK, COMPLETE_SUB_TASK}

\* C25: after a tool batch the loop goes on to a reflection call if and only
\* if interleaved thinking is enabled, no completion signal has fired, the
\* step index is a multiple of 3 and some call of the batch is not a
\* save_research_plan, complete_task or complete_sub_task call.
C25_ReflectionGate ==
    [][pc = "after_tools"
       => (pc' = "reflect"
             <=> /\ agent.enable_interleaved_thinking
                 /\ ~task_completed
                 /\ step_index % 3 = 0
                 /\ \E i \in 1..Len(batch) : batch[i].name \notin ReportTools)]_vars

\* C26: a reflection call that raises or returns blank text leaves history,
\* the view and the saved file as they were; one that returns text appends
\* exactly one assistant message, without tool calls, whose content carries
\* the reflection mark; and after each of them the run is still running and
\* the loop is at the top of the next step.
C26_ReflectionNeverAborts ==
    [][pc = "reflect"
       => /\ reflection' \in ReflectionOutcomes
          /\ reflection' \in {"raises", "blank"}
                => /\ history' = history
                   /\ get_model_messages' = get_model_messages
                   /\ clock' = clock
                   /\ saved' = saved
          /\ reflection' = "text"
                => /\ clock' = clock + 1
                   /\ last'.op = "add"
                   /\ last'.rec.msg = BuildMsg(ASSISTANT, ReflectionText(clock'),
                                               Absent, Absent, <<>>)
                   /\ history'[Len(history')] = last'.rec
                   /\ get_model_messages'[Len(messages')]
                         = sanitize_for_model(last'.rec.msg)
          /\ pc' = "step"
          /\ step_index' = step_index + 1
          /\ outcome' = "running"
          /\ task_completed' = task_completed]_vars

\* C26 witness: the reflection call after the tool batch of a late step
\* raised; history still ends with the tool result and the run goes on.
C26_Witness ==
    /\ pc = "step"
    /\ reflection = "raises"
    /\ step_index > 3
    /\ outcome = "running"
    /\ history[Len(history)].msg.role = TOOL

\* the run has returned from Agent.run
RunReturned == pc = "done" /\ outcome \in {"completed", "exhausted"}

\* C27: a run that returns returns the raw response of the last step model
\* call it made, whatever reflection and summarizer calls came after it, and
\* the empty result exactly when no step ran, which is when max_steps is 0.
C27_RunReturnsLastStepResponse ==
    RunReturned
       => /\ step_calls > 0 => run_result(last_response) = Response(step_calls - 1)
          /\ step_calls = 0 => run_result(last_response) = EmptyResult
          /\ step_calls = 0 <=> agent.max_steps = 0

\* C27 witness: a run has returned whose last model call was a reflection
\* call: the reflection is the last record of history, after the tool result.
C27_Witness ==
    /\ RunReturned
    /\ step_calls > 0
    /\ agent.enable_interleaved_thinking
    /\ history[Len(history)].msg.content = ReflectionText(clock)
    /\ history[Len(history) - 1].msg.role = TOOL

\* C28: a call of an allowed tool whose arguments do not conform to the
\* tool's schema (a required field missing, or a field carrying a value of
\* another primitive type than declared) raises after validation and before
\* the handler: no execution that read such arguments went past validation.
C28_NonconformingArgsRejected ==
    \A i \in 1..Len(results) :
        results[i].args = "nonconforming"
           => /\ results[i].status = "exc"
              /\ results[i].stages = <<"validate">>

----------------------------------------------------------------------------
(* Properties of nested agents.                                            *)

\* the record is one the nested agent at position i appends
SubagentRecord(i, rec) ==
    \/ rec.msg.tool_calls \in {<<SubagentCall(i)>>, <<SubagentNestCall(i)>>}
    \/ /\ rec.msg.tool_calls = <<>>
       /\ rec.msg.content \in
             {SystemPrompt, SubagentTask(i), build_max_step_completion_prompt(SubTools)}
             \cup {SubagentText(i, k) : k \in 1..(3 + 2 * MaxSubagentSteps)}
             \cup {SubagentToolText(i, r, k) :
                      r \in {Raised("not_allowed", <<>>), Returned("done", <<>>)},
                      k \in 1..(3 + 2 * MaxSubagentSteps)}

\* the nested agents whose history a step changes
SubagentsAppending ==
    {i \in DOMAIN subagents \cap DOMAIN subagents' :
        subagents'[i].mem.history # subagents[i].mem.history}

\* C29: the nested agents of one batch run concurrently, each on a Memory
\* that is empty when the agent is constructed and that receives the
\* records of that agent only; a step that appends to the history of one
\* agent (parent or nested) leaves the history of every other agent as it
\* was
C29_SubagentMemoriesIsolated ==
    [][/\ \A i \in DOMAIN subagents' \ DOMAIN subagents :
             subagents'[i].mem.history = <<>>
       /\ \A i \in SubagentsAppending :
             LET h == subagents[i].mem.history
                 h2 == subagents'[i].mem.history
             IN  /\ h2 = Append(h, h2[Len(h2)])
                 /\ SubagentRecord(i, h2[Len(h2)])
                 /\ history' = history
                 /\ messages' = messages
                 /\ \A j \in DOMAIN subagents \ {i} : subagents'[j] = subagents[j]
       /\ history' # history => subagents' = subagents]_vars

\* two nested agents of one batch are both under way, each with records of
\* its own, while the parent, whose history is not empty, awaits them
C29_Witness ==
    /\ pc = "tools"
    /\ history # <<>>
    /\ \E i, j \in DOMAIN subagents :
          /\ i # j
          /\ subagents[i].pc \in {"call", "tool", "nest"}
          /\ subagents[j].pc \in {"call", "tool", "nest"}
          /\ Len(subagents[i].mem.history) >= 3
          /\ Len(subagents[j].mem.history) >= 3
          /\ subagents[i].mem.history # subagents[j].mem.history

----------------------------------------------------------------------------
(* Properties of the rate-limit gate.                                      *)

\* the requests that hold the lock of the gate across its await
InsideGate == {i \in 1..MaxRequests : gate.reqs[i].pc = "sleeping"}

\* C30: through an LLMService with rate_limit_delay > 0, at most one
\* request at a time is inside the gate, and any two requests that pass it
\* one after the other, whoever issued them and however they overlapped,
\* pass it at least rate_limit_delay apart
C30_GateSpacesRequests ==
    (gate.built /\ gate.rate_limit_delay > 0)
        => /\ Cardinality(InsideGate) <= 1
           /\ \A k \in 1..(Len(gate.passes) - 1) :
                 gate.passes[k + 1].at - gate.passes[k].at >= gate.rate_limit_delay

\* a request issued while another was inside the gate waited for the lock,
\* slept, and passed exactly rate_limit_delay after a request of another
\* kind; a third kind passed after them
C30_Witness ==
    /\ gate.built
    /\ gate.rate_limit_delay > 1
    /\ Len(gate.passes) = 3
    /\ {gate.passes[k].kind : k \in 1..3} = RequestKinds
    /\ \E k \in 1..2 :
          /\ gate.passes[k + 1].waited
          /\ gate.passes[k + 1].slept
          /\ gate.passes[k + 1].at - gate.passes[k].at = gate.rate_limit_delay

----------------------------------------------------------------------------
(* Invariants of a seeded memory.                                          *)

\* C34: in a memory seeded with a system then a user message, after every
\* append that completed, the non-synthetic assistant records of history
\* number at most max(max_turns, keep_last_n_turns).
C34_RealTurnsBounded ==
    (Seeded(history) /\ last.op = "add" /\ ~last.raised)
        => count_user_turns(history) <= Max(max_turns, keep_last_n_turns)

\* C34 witness: a seeded memory whose last append summarized and left as
\* many real assistant records as the bound allows, with keep_last_n_turns
\* above max_turns
C34_Witness ==
    /\ Seeded(history)
    /\ keep_last_n_turns > max_turns
    /\ last.op = "add" /\ last.summarizer # "none" /\ ~last.raised
    /\ count_user_turns(history) = keep_last_n_turns
    /\ count_user_turns(history) >= 2

\* C35: in a memory seeded with a system then a user message, history holds
\* at most one synthetic record, and that one at index 2 (the third
\* record); the record an add_* operation appends is never synthetic.
C35_OneSyntheticAtIndexTwo ==
    Seeded(history)
        => /\ SyntheticAt(history) \subseteq {3}
           /\ last.op = "add" => ~last.rec.meta.synthetic

\* C35 witness: a seeded memory that summarized, then took further appends
\* without summarizing, and still holds its one synthetic record third
C35_Witness ==
    /\ Seeded(history)
    /\ SyntheticAt(history) = {3}
    /\ last.op = "add" /\ last.summarizer = "none"
    /\ Len(history) >= 5
    /\ history[Len(history)] = last.rec

----------------------------------------------------------------------------
(* Safety of the summarization trigger and of the rewrite.                 *)

\* C36: on a seeded memory, whatever the thresholds, a summarizer call is
\* handed at least one message, and the rewrite that follows leaves history
\* no longer than it was with the appended record.
C36_RewriteNeverGrowsNorSummarizesNothing ==
    [][(last'.op = "add" /\ Seeded(history) /\ last'.summarizer # "none")
       => /\ last'.request # <<>>
          /\ Len(history') <= Len(Appended)]_vars

\* C37: on a seeded memory, whatever the thresholds, an append that calls
\* the summarizer or rewrites history is the append of an assistant
\* message; a user, system or tool append only adds its record.
C37_OnlyAssistantAppendSummarizes ==
    [][(last'.op = "add" /\ Seeded(history) /\ last'.rec.msg.role # ASSISTANT)
       => /\ last'.summarizer = "none"
          /\ history' = Appended]_vars

----------------------------------------------------------------------------
(* What a rewrite drops.                                                   *)

\* the positions of h, behind its first two records and before the
\* boundary b, that hold a user or system record
DroppedBefore(h, b) ==
    {i \in 3..b : i <= Len(h) /\ h[i].msg.role \in {USER, SYSTEM}}

----------------------------------------------------------------------------
(* Properties of autosave.                                                 *)

\* what the append of this step leaves when its autosave, if any, succeeds
WithoutIoFailure ==
    add_record(Mem, last'.rec, clock + 1, last'.summarizer # "failed", TRUE)

\* C32: with autosave on and autosave_every = k >= 1, every append
\* completes, a save is attempted by exactly the appends number k, 2k, 3k,
\* ..., the counter restarting from 0 at each attempt; the save writes the
\* history as the append left it, rewrite included; a save that fails
\* leaves the file as it was, does not make the append raise, and history
\* and the model view are what they are when the save succeeds.
C32_AutosaveEveryKthAppend ==
    [][(last'.op = "add" /\ autosave /\ autosave_every >= 1)
       => /\ ~last'.raised
          /\ last'.autosaved <=> (clock' % autosave_every = 0)
          /\ autosave_counter' = clock' % autosave_every
          /\ last'.autosaved => saved' \in {save_payload(history'), saved}
          /\ ~last'.autosaved => saved' = saved
          /\ history' = WithoutIoFailure.history
          /\ messages' = WithoutIoFailure.messages]_vars

\* C32 witness: with autosave_every = 2 the fourth append has just rewritten
\* history and its save failed, leaving the file the second append wrote
C32_Witness ==
    /\ autosave /\ autosave_every = 2
    /\ clock = 4
    /\ last.op = "add" /\ last.autosaved /\ ~last.raised
    /\ last.summarizer # "none"
    /\ saved # <<>>
    /\ saved # save_payload(history)
    /\ autosave_counter = 0

----------------------------------------------------------------------------
(* Properties of the memory lock.                                          *)

\* call t waits for the lock or holds it
InFlight(t) ==
    \/ \E i \in 1..Len(lock.waiters) : lock.waiters[i].t = t
    \/ lock.holder # <<>> /\ lock.holder[1].t = t

\* no call waits for the lock while it holds it
NoSelfRequest ==
    \A i \in 1..Len(lock.waiters) :
       lock.holder = <<>> \/ lock.holder[1].t # lock.waiters[i].t

\* while a call waits for the lock or holds it, the memory can move
NoDeadlock ==
    (lock.holder # <<>> \/ lock.waiters # <<>>) => ENABLED (LockWake \/ LockRewrite)

\* a read runs when no other call holds the lock, and what it is handed is
\* the whole of what the memory holds then: get_model_messages the view,
\* which mirrors history record by record, and save the payload of history
ReadsWhole ==
    (last'.op \in {"get", "save", "autosave"} /\ last' # last)
       => /\ lock.holder = <<>> \/ lock.holder[1].t = last'.t
          /\ lock'.holder = <<>>
          /\ last'.op # "autosave" => history' = history
          /\ messages' = rebuild_messages(history')
          /\ last'.seen = IF last'.op = "get" THEN messages'
                          ELSE save_payload(history')

\* C40: no call asks for the memory lock while it holds it; with appends,
\* get_model_messages and save calls overlapping on one Memory that saves
\* itself after every append, the memory is never stuck while a call is
\* pending, a read is handed the whole view or history and runs only when
\* no other call holds the lock, and every call that waits for the lock or
\* holds it gets through, given that the curator call returns or raises.
C40_LockNeverDeadlocks ==
    /\ [](NoSelfRequest /\ NoDeadlock)
    /\ [][ReadsWhole]_vars
    /\ \A t \in 1..MaxLockOps : InFlight(t) ~> ~InFlight(t)

\* C40 witness: after a rewrite, the autosave of the append that rewrote
\* waits for the lock behind a read or a save that queued up during the
\* curator call
C40_Witness ==
    /\ SyntheticAt(history) # {}
    /\ \E i, j \in 1..Len(lock.waiters) :
          /\ i < j
          /\ lock.waiters[i].op \in {"get", "save"}
          /\ lock.waiters[j].op = "autosave"

\* ---------------------------------------------------------------------------
\* Depth of agent nesting
\* ---------------------------------------------------------------------------

\* C33: a nested agent started by run_subagent has exactly the tools
\* web_extract, web_search and complete_sub_task, so run_subagent is none of
\* them and its executor refuses the call: no nested agent ever starts an
\* agent below it (the nesting is lead agent, then sub-agent, and no
\* deeper), and its run is bounded by its own step loop, which takes at
\* most MaxSubagentSteps steps and appends at most three records (system
\* prompt, task, completion prompt) and two per step.
C33_SubagentsNeverNest ==
    \A i \in DOMAIN subagents :
        /\ subagents[i].tools = {WEB_EXTRACT, WEB_SEARCH, COMPLETE_SUB_TASK}
        /\ RUN_SUBAGENT \notin subagents[i].tools
        /\ subagents[i].spawned = 0
        /\ subagents[i].step <= MaxSubagentSteps
        /\ subagents[i].appends <= 3 + 2 * MaxSubagentSteps
        /\ subagents[i].pc = "nest"
              => subagent_execution(subagents[i], i).result.status = "exc"

\* a nested agent whose model asked for run_subagent was refused, was fed
\* the failure, and its run has ended
C33_Witness ==
    \E i \in DOMAIN subagents :
        /\ subagents[i].pc = "done"
        /\ \E k \in 1..Len(subagents[i].mem.history) :
              /\ subagents[i].mem.history[k].msg.role = TOOL
              /\ subagents[i].mem.history[k].msg.tool_call_id = SubagentNestCall(i).id

\* ---------------------------------------------------------------------------
\* Completion of a nested agent and of its parent
\* ---------------------------------------------------------------------------

\* the calls of the batch whose envelope carries task_completed
CompletionCalls == {COMPLETE_TASK, COMPLETE_SUB_TASK}

\* the result of every run_subagent call of the batch is no completion
\* envelope, and is a success envelope whenever the nested run ended
\* Completed or Exhausted
SubagentEnvelopesPlain ==
    \A j \in DOMAIN results :
        batch[j].name = RUN_SUBAGENT
            => /\ results[j].status # "done"
               /\ results[j].nested \in {"completed", "exhausted"}
                     => results[j].status = "ok"

\* the step that marks the loop Completed appends the result of a
\* complete_task or complete_sub_task call of the agent's own batch
CompletedByOwnCall ==
    (~task_completed /\ task_completed')
        => /\ pc = "append"
           /\ append_idx \in DOMAIN batch
           /\ batch[append_position(append_idx, order)].name \in CompletionCalls
           /\ results[append_position(append_idx, order)].status = "done"

\* C39: the envelope run_subagent returns never carries task_completed and
\* reports success whether the nested agent ended Completed or Exhausted,
\* so the end of a nested agent never marks the loop of its parent
\* Completed; only the result of a complete_task or complete_sub_task call
\* of the agent's own batch does.
C39_SubagentNeverCompletesParent ==
    []SubagentEnvelopesPlain /\ [][CompletedByOwnCall]_vars

\* a nested agent ended Completed, its envelope reported success and was
\* appended with the rest of the batch, and the parent is not Completed
C39_Witness ==
    /\ ~task_completed
    /\ pc \notin {"tools", "append"}
    /\ \E j \in DOMAIN results :
          /\ batch[j].name = RUN_SUBAGENT
          /\ results[j].nested = "completed"
          /\ results[j].status = "ok"

\* ---------------------------------------------------------------------------
\* Properties of the orchestration
\* ---------------------------------------------------------------------------

\* the orchestration is over: start_deep_research returned or raised
ResearchOver == research.pc \in {"returned", "raised"}

\* the citation agent is started at most once, after the run of the lead
\* agent ended, and only when the report of the session was there and found
CitationAfterLeadWithReport ==
    /\ research.citation_runs <= 1
    /\ research.pc = "citation" => research.citation_runs = 1
    /\ research.citation_runs = 1
          => /\ research.lead \in {"completed", "exhausted"}
             /\ research.lead_report
             /\ research.found

\* a lead run that ended with no report written makes the orchestration
\* return the session id, the citation agent not started
NoReportReturnsSessionId ==
    (ResearchOver /\ ~research.lead_report)
        => /\ research.pc = "returned"
           /\ research.citation_runs = 0

\* C31: the citation agent is started only after the run of the lead agent
\* has ended and only if the session has a report.md; when the lead agent
\* ended without writing a report, the orchestration returns the session id
\* without running the citation agent.
C31_CitationOnlyAfterLeadWithReport ==
    CitationAfterLeadWithReport /\ NoReportReturnsSessionId

====
